---- MODULE Spec2Model ----
(***************************************************************************)
(* r-wire capture backend: the command surface of lib.rs (start_capture,   *)
(* stop_capture, get_packet_detail, export_pcap), the producer thread and  *)
(* the consumer loop of capture.rs::run_capture, the packet cache, the     *)
(* summary parser and the dissector of dissector.rs and the pcap writer of *)
(* export.rs.                                                              *)
(*                                                                         *)
(* Time is counted in consumer ticks (one tick = one 10 ms sleep of the    *)
(* select loop).  BATCH_SIZE, BATCH_TIMEOUT_TICKS and MAX_CACHE_SIZE carry *)
(* the source's names with values scaled down (source: 50, 250 ms / 10 ms  *)
(* = 25 ticks, 100000) so that the size trigger, the time trigger and the  *)
(* eviction all happen within a few frames.                                *)
(***************************************************************************)
EXTENDS Integers, Sequences, FiniteSets, TLC

\* ---------------------------------------------------------------- bounds
MaxSess == 2            \* capture sessions that can be started
MaxCalls == 3           \* command-surface calls in one behaviour
MaxFrames == 2          \* frames the device delivers in one behaviour
MaxIdList == 2          \* length of the id list given to export_pcap
BATCH_SIZE == 2         \* capture.rs:76 (50), scaled
BATCH_TIMEOUT_TICKS == 2 \* capture.rs:77 over capture.rs:93 (250 / 10), scaled
MAX_CACHE_SIZE == 2     \* capture.rs:110 (100000), scaled
MaxElapsed == BATCH_TIMEOUT_TICKS + 2  \* saturation of the tick counter
MaxFramesLong == MaxFrames + 2         \* frames delivered in a long capture

\* ------------------------------------------------------- program constants
ETHERNET_MIN == 14      \* EthernetPacket::new: minimum packet size
IPV4_MIN == 20          \* Ipv4Packet::new: minimum packet size
IPV6_MIN == 40          \* Ipv6Packet::new: minimum packet size
TCP_MIN == 20           \* TcpPacket::new: minimum packet size
UDP_MIN == 8            \* UdpPacket::new: minimum packet size
ETHERTYPE_IPV4 == 2048  \* EtherTypes::Ipv4 0x0800
ETHERTYPE_IPV6 == 34525 \* EtherTypes::Ipv6 0x86DD
ETHERTYPE_ARP == 2054   \* EtherTypes::Arp 0x0806
IPPROTO_TCP == 6
IPPROTO_UDP == 17
IPPROTO_ICMP == 1
IPPROTO_ICMPV6 == 58
PCAP_MAGIC == <<212, 195, 178, 161>>   \* 0xA1B2C3D4 little-endian
PCAP_VERSION_MAJOR == 2
PCAP_VERSION_MINOR == 4
PCAP_THISZONE == 0
PCAP_SIGFIGS == 0
PCAP_SNAPLEN == 65535
PCAP_NETWORK == 1
USEC_MAX == 999999      \* export.rs:70 .min(999_999)
NS_PER_US == 1000
NS_PER_SEC == 1000000000

\* ---------------------------------------------------------- wide integers
\* A 64-bit count of seconds does not fit one model integer: it is held as
\* <<hi, lo>> = hi * 2^16 + lo with 0 <= lo < 2^16 (hi < 0 for a negative
\* count).  An unsigned 32-bit value is the same pair with 0 <= hi < 2^16.
HALF == 65536
WideOf(n) == <<n \div HALF, n % HALF>>
\* w + c for a small c
WideAdd(w, c) == <<w[1] + (w[2] + c) \div HALF, (w[2] + c) % HALF>>
WideNeg(w) == w[1] < 0
\* `as u32` of a 64-bit value: the low 32 bits
AsU32(w) == <<w[1] % HALF, w[2]>>
\* i64 division, which truncates toward zero
TruncDiv(a, b) == IF a >= 0 THEN a \div b ELSE -((-a) \div b)

\* i64 nanoseconds since the epoch are held as <<q, r>>: q the wide quotient
\* ts / 10^9 and r the remainder ts % 10^9 of Rust's division (r has the
\* sign of ts, |r| < 10^9)
NsZero == <<WideOf(0), 0>>

None == "None"
\* Option<PacketSummary>: Absent is Rust's None, a summary carries present = TRUE
Absent == [present |-> FALSE]
Sessions == 1..MaxSess

\* ------------------------------------------------------------ frame source
\* Frames the device can deliver (bytes as integers 0..255).
ShortFrame == <<0, 1, 2>>
ArpFrame == <<255, 255, 255, 255, 255, 255, 102, 119, 136, 153, 170, 187, 8, 6, 0, 1>>
Frames == {ShortFrame, ArpFrame}
\* the frames of a long capture: all of them parse
FramesLong == {ArpFrame}
\* frames of every fate: too short for Ethernet, ARP, LLDP, cut inside the
\* IPv4 header, cut inside the IPv6 header, IPv4/TCP with data, IPv6/UDP
FramesAnyFate ==
    {ShortFrame, ArpFrame,
     <<1, 128, 194, 0, 0, 14, 102, 119, 136, 153, 170, 187, 136, 204, 2, 7>>,
     <<0, 17, 34, 51, 68, 85, 102, 119, 136, 153, 170, 187, 8, 0,
       69, 0, 0, 40, 0, 1>>,
     <<0, 17, 34, 51, 68, 85, 102, 119, 136, 153, 170, 187, 134, 221,
       96, 0, 0, 0, 0, 8, 17, 64>> \o [i \in 1..31 |-> 0],
     <<0, 17, 34, 51, 68, 85, 102, 119, 136, 153, 170, 187, 8, 0,
       69, 0, 0, 42, 0, 1, 0, 0, 64, 6, 0, 0, 192, 168, 1, 1, 192, 168, 1, 2,
       212, 49, 0, 80, 0, 0, 0, 0, 0, 0, 0, 0, 80, 2, 32, 0, 0, 0, 0, 0, 71, 69>>,
     <<0, 17, 34, 51, 68, 85, 102, 119, 136, 153, 170, 187, 134, 221,
       96, 0, 0, 0, 0, 8, 17, 64>> \o [i \in 1..15 |-> 0] \o <<1>>
       \o [i \in 1..15 |-> 0] \o <<1, 195, 80, 0, 53, 0, 8, 0, 0>>}
\* Header timestamps (tv_sec, tv_usec) the device can report.
Timestamps == {<<WideOf(1), 500000>>}
\* the same over the range 0 <= tv_sec < 2^32, 0 <= tv_usec < 10^6
HeaderStamps ==
    {<<WideOf(0), 0>>, <<WideOf(1), 500000>>, <<WideOf(1700000000), 1>>,
     <<<<HALF - 1, HALF - 1>>, 999999>>}

\* ---- buffers for direct calls of the dissector, built header by header
Mac1 == <<0, 17, 34, 51, 68, 85>>
Mac2 == <<102, 119, 136, 153, 170, 187>>
Zeros(n) == [i \in 1..n |-> 0]
EthernetFrame(dst, src, ethertype, payload) ==
    dst \o src \o <<ethertype \div 256, ethertype % 256>> \o payload
\* an IPv4 header of ihl words announcing total_length bytes, 192.168.1.1 -> .2
Ipv4Header(ihl, total_length, proto) ==
    <<64 + ihl, 0, total_length \div 256, total_length % 256, 0, 1, 0, 0,
      64, proto, 0, 0, 192, 168, 1, 1, 192, 168, 1, 2>> \o Zeros((ihl - 5) * 4)
\* the TCP header (54321 -> 80) and the UDP header (50000 -> 53) of the tests
TcpHeader == <<212, 49, 0, 80, 0, 0, 0, 0, 0, 0, 0, 0, 80, 2, 32, 0, 0, 0, 0, 0>>
UdpHeader == <<195, 80, 0, 53, 0, 12, 0, 0>>
\* what follows the IP header: whole, cut one byte short, absent, with data
L4Bytes == {TcpHeader, UdpHeader, SubSeq(TcpHeader, 1, 19), SubSeq(UdpHeader, 1, 7),
            <<>>, TcpHeader \o <<71, 69>>}
Ipv4FramesOf(ihl) ==
    {EthernetFrame(Mac1, Mac2, ETHERTYPE_IPV4, Ipv4Header(ihl, tl, proto) \o l4) :
        proto \in {IPPROTO_TCP, IPPROTO_UDP, IPPROTO_ICMP, 47}, l4 \in L4Bytes,
        tl \in {ihl * 4, ihl * 4 + 8, ihl * 4 + 22}}
Ipv4Frames == Ipv4FramesOf(5) \cup Ipv4FramesOf(6)
Ipv6Addrs ==
    {<<32, 1, 13, 184, 0, 0, 0, 0, 0, 0, 255, 0, 0, 66, 131, 41>>,  \* 2001:db8::ff00:42:8329
     Zeros(15) \o <<1>>,                                            \* ::1
     Zeros(10) \o <<255, 255, 192, 168, 1, 1>>,                     \* ::ffff:192.168.1.1
     <<0, 1, 0, 0, 0, 0, 0, 4, 0, 5, 0, 0, 0, 0, 0, 8>>,            \* 1::4:5:0:0:8
     <<0, 1, 0, 0, 0, 3, 0, 4, 0, 5, 0, 6, 0, 7, 0, 8>>}            \* 1:0:3:4:5:6:7:8
Ipv6Header(payload_length, next_header, src, dst) ==
    <<96, 0, 0, 0, payload_length \div 256, payload_length % 256, next_header, 64>>
    \o src \o dst
Ipv6Frames ==
    {EthernetFrame(Mac1, Mac2, ETHERTYPE_IPV6,
                   Ipv6Header(Len(l4), nh, src, Zeros(15) \o <<1>>) \o l4) :
        nh \in {IPPROTO_TCP, IPPROTO_UDP, IPPROTO_ICMPV6, 0}, src \in Ipv6Addrs, l4 \in {TcpHeader, UdpHeader, <<>>}}
\* other ethertypes (ARP, LLDP, 0), with and without payload
OtherFrames ==
    {EthernetFrame(dst, Mac2, et, pl) :
        dst \in {Mac1, <<255, 255, 255, 255, 255, 255>>},
        et \in {ETHERTYPE_ARP, 35020, 0}, pl \in {<<>>, <<0, 1>>}}
\* every proper prefix of the Ethernet + IPv4 headers and of the Ethernet +
\* IPv6 headers: too short for Ethernet, or for the IP header
TruncatedFrames ==
    {SubSeq(EthernetFrame(Mac1, Mac2, ETHERTYPE_IPV4, Ipv4Header(5, 20, IPPROTO_TCP)), 1, n) : n \in 0..33}
    \cup {SubSeq(EthernetFrame(Mac1, Mac2, ETHERTYPE_IPV6,
                  Ipv6Header(0, IPPROTO_TCP, Zeros(15) \o <<1>>, Zeros(15) \o <<1>>)), 1, n) : n \in 0..53}
ProbeFrames == Ipv4Frames \cup Ipv6Frames \cup OtherFrames \cup TruncatedFrames
ProbeIds == {1, 7}
ProbeTimestamps == {NsZero, <<WideOf(1), 500000000>>}

\* ---- cached timestamps for direct runs of the exporter's conversion: from
\* i64::MIN to i64::MAX, around 0, around a full second and around 2^32 s
StampQuotients ==
    {WideOf(0), WideOf(1), WideOf(1700000000), <<HALF - 1, HALF - 1>>,
     <<HALF, 0>>, <<140737, 32003>>}
StampRemainders ==
    {0, 1, 999, 1000, 1999, 500000000, 999999000, 999999999}
ProbeStamps ==
    {<<q, r>> : q \in StampQuotients, r \in StampRemainders}
    \cup {<<<<140737, 32004>>, 854775807>>}
    \cup {<<q, -r>> : q \in {WideOf(0), WideOf(-1), WideOf(-1700000000)},
                      r \in StampRemainders}
    \cup {<<<<-140738, 33532>>, -854775808>>}

\* ---- arguments for direct calls of the application-layer classifier
ProbePorts == {53, 80, 443, 8080}
\* "GET / ", "POST", "PUT", "DELETE", "HTTP/", "GE", "get": starts of text
TextPayloads ==
    {<<71, 69, 84, 32, 47, 32>>, <<80, 79, 83, 84>>, <<80, 85, 84>>,
     <<68, 69, 76, 69, 84, 69>>, <<72, 84, 84, 80, 47>>, <<71, 69>>,
     <<103, 101, 116>>}
\* a request line followed by a byte that is not text, a request of 101
\* bytes of text whose last character (U+00E9) lies across byte 100, and
\* bytes that are no text at all
MixedPayloads ==
    {<<71, 69, 84, 32, 47, 255>>,
     <<71, 69, 84, 32>> \o [i \in 1..95 |-> 97] \o <<195, 169>>,
     <<0, 1>>}
ProbePayloads == {<<>>} \cup TextPayloads \cup MixedPayloads

\* ---- frames for direct calls of dissect_packet: a TCP segment (with and
\* without options) or a UDP datagram between any two of the ports, carrying
\* each of the payloads, over IPv4 and over IPv6
TcpHeaderOf(src_port, dst_port, data_offset) ==
    <<src_port \div 256, src_port % 256, dst_port \div 256, dst_port % 256,
      0, 0, 0, 1, 0, 0, 0, 0, data_offset * 16, 24, 32, 0, 0, 0, 0, 0>>
    \o Zeros((data_offset - 5) * 4)
UdpHeaderOf(src_port, dst_port, payload_len) ==
    <<src_port \div 256, src_port % 256, dst_port \div 256, dst_port % 256,
      (UDP_MIN + payload_len) \div 256, (UDP_MIN + payload_len) % 256, 0, 0>>
Segments ==
    {TcpHeaderOf(sp, dp, off) \o pl :
        sp \in ProbePorts, dp \in ProbePorts, off \in {5, 6}, pl \in ProbePayloads}
Datagrams ==
    {UdpHeaderOf(sp, dp, Len(pl)) \o pl :
        sp \in ProbePorts, dp \in ProbePorts, pl \in ProbePayloads}
AppFrames ==
    {EthernetFrame(Mac1, Mac2, ETHERTYPE_IPV4,
                   Ipv4Header(5, IPV4_MIN + Len(l4), IPPROTO_TCP) \o l4) : l4 \in Segments}
    \cup {EthernetFrame(Mac1, Mac2, ETHERTYPE_IPV4,
                   Ipv4Header(5, IPV4_MIN + Len(l4), IPPROTO_UDP) \o l4) : l4 \in Datagrams}
    \cup {EthernetFrame(Mac1, Mac2, ETHERTYPE_IPV6,
                   Ipv6Header(Len(l4), IPPROTO_TCP, Zeros(15) \o <<1>>, Zeros(15) \o <<1>>) \o l4) :
              l4 \in Segments}
    \cup {EthernetFrame(Mac1, Mac2, ETHERTYPE_IPV6,
                   Ipv6Header(Len(l4), IPPROTO_UDP, Zeros(15) \o <<1>>, Zeros(15) \o <<1>>) \o l4) :
              l4 \in Datagrams}
DetailFrames == ProbeFrames \cup AppFrames

\* ------------------------------------------------------------- dissector
RECURSIVE SeqToSet(_)
SeqToSet(s) == IF s = <<>> THEN {} ELSE {Head(s)} \cup SeqToSet(Tail(s))

Min(a, b) == IF a < b THEN a ELSE b
Max(a, b) == IF a > b THEN a ELSE b

\* ---- text formatting (Display of the address types, {} of integers)
HexDigits == <<"0", "1", "2", "3", "4", "5", "6", "7", "8", "9",
               "a", "b", "c", "d", "e", "f">>

\* format!("{}", n) of an unsigned integer
RECURSIVE ToDec(_)
ToDec(n) == IF n < 10 THEN HexDigits[n + 1]
            ELSE ToDec(n \div 10) \o HexDigits[(n % 10) + 1]

\* format!("{:x}", n): lowercase, no leading zeros
RECURSIVE ToHex(_)
ToHex(n) == IF n < 16 THEN HexDigits[n + 1]
            ELSE ToHex(n \div 16) \o HexDigits[(n % 16) + 1]

\* format!("{:02x}", b) of one byte
Hex2(b) == HexDigits[(b \div 16) + 1] \o HexDigits[(b % 16) + 1]

\* format!("{:0w$x}", n): lowercase hex, zero-padded to w digits
RECURSIVE HexPad(_, _)
HexPad(n, w) ==
    IF w <= 1 THEN ToHex(n)
    ELSE IF n < 16 THEN "0" \o HexPad(n, w - 1)
    ELSE HexPad(n \div 16, w - 1) \o HexDigits[(n % 16) + 1]

\* format!("{} bytes", n)
Bytes(n) == ToDec(n) \o " bytes"

\* MacAddr Display: six lowercase two-digit groups joined by ':'
MacToString(m) ==
    Hex2(m[1]) \o ":" \o Hex2(m[2]) \o ":" \o Hex2(m[3]) \o ":" \o
    Hex2(m[4]) \o ":" \o Hex2(m[5]) \o ":" \o Hex2(m[6])

\* Ipv4Addr Display: dotted quad
Ipv4ToString(a) ==
    ToDec(a[1]) \o "." \o ToDec(a[2]) \o "." \o ToDec(a[3]) \o "." \o ToDec(a[4])

\* the eight 16-bit segments of an IPv6 address
Ipv6Segments(a) == [i \in 1..8 |-> a[2 * i - 1] * 256 + a[2 * i]]

\* length of the run of zero segments starting at segment i
RECURSIVE ZeroRun(_, _)
ZeroRun(seg, i) == IF i > 8 \/ seg[i] # 0 THEN 0 ELSE 1 + ZeroRun(seg, i + 1)

\* segments i..j as hex groups joined by ':'
RECURSIVE HexGroups(_, _, _)
HexGroups(seg, i, j) ==
    IF i > j THEN ""
    ELSE IF i = j THEN ToHex(seg[i])
    ELSE ToHex(seg[i]) \o ":" \o HexGroups(seg, i + 1, j)

\* Ipv6Addr Display: "::ffff:a.b.c.d" for an IPv4-mapped address, otherwise
\* the first longest run of two or more zero segments is written "::"
Ipv6ToString(a) ==
    LET seg == Ipv6Segments(a)
        longest == CHOOSE i \in 1..8 :
                      \A j \in 1..8 : \/ ZeroRun(seg, j) < ZeroRun(seg, i)
                                      \/ (ZeroRun(seg, j) = ZeroRun(seg, i) /\ i <= j)
        run == ZeroRun(seg, longest)
    IN  IF (\A i \in 1..5 : seg[i] = 0) /\ seg[6] = 65535
        THEN "::ffff:" \o Ipv4ToString(SubSeq(a, 13, 16))
        ELSE IF run >= 2
        THEN HexGroups(seg, 1, longest - 1) \o "::" \o HexGroups(seg, longest + run, 8)
        ELSE HexGroups(seg, 1, 8)

\* ---- packet views (pnet): new() is None below the minimum size; a payload
\* with a length function is cut at the length the header announces
EthernetNew(raw) == Len(raw) >= ETHERNET_MIN
EtherType(raw) == raw[13] * 256 + raw[14]
EtherDestination(raw) == SubSeq(raw, 1, 6)
EtherSource(raw) == SubSeq(raw, 7, 12)
EtherPayload(raw) == SubSeq(raw, ETHERNET_MIN + 1, Len(raw))

Ipv4New(p) == Len(p) >= IPV4_MIN
Ipv4HeaderLength(p) == p[1] % 16
Ipv4TotalLength(p) == p[3] * 256 + p[4]
Ipv4NextLevelProtocol(p) == p[10]
Ipv4Source(p) == SubSeq(p, 13, 16)
Ipv4Destination(p) == SubSeq(p, 17, 20)
\* payload(): from the end of the options, total_length - 4 * header_length
\* bytes (saturating), never past the end of the buffer
Ipv4Payload(p) ==
    LET start == IPV4_MIN + Max(Ipv4HeaderLength(p) * 4 - IPV4_MIN, 0)
        plen == Max(Ipv4TotalLength(p) - Ipv4HeaderLength(p) * 4, 0)
        end == Min(start + plen, Len(p))
    IN  IF Len(p) <= start THEN <<>> ELSE SubSeq(p, start + 1, end)

Ipv6New(p) == Len(p) >= IPV6_MIN
Ipv6NextHeader(p) == p[7]
Ipv6PayloadLength(p) == p[5] * 256 + p[6]
Ipv6Source(p) == SubSeq(p, 9, 24)
Ipv6Destination(p) == SubSeq(p, 25, 40)
Ipv6Payload(p) ==
    LET end == Min(IPV6_MIN + Ipv6PayloadLength(p), Len(p))
    IN  IF Len(p) <= IPV6_MIN THEN <<>> ELSE SubSeq(p, IPV6_MIN + 1, end)

TcpNew(p) == Len(p) >= TCP_MIN
UdpNew(p) == Len(p) >= UDP_MIN
\* get_destination() of TcpPacket and of UdpPacket: bytes 2..3, big-endian
L4Destination(p) == p[3] * 256 + p[4]
\* get_source() of TcpPacket and of UdpPacket: bytes 0..1, big-endian
L4Source(p) == p[1] * 256 + p[2]

\* big-endian integer held in bytes i..j of p
RECURSIVE BeInt(_, _, _)
BeInt(p, i, j) == IF i > j THEN 0 ELSE BeInt(p, i, j - 1) * 256 + p[j]

Ipv4Identification(p) == BeInt(p, 5, 6)
Ipv4Flags(p) == p[7] \div 32
Ipv4Ttl(p) == p[9]
Ipv6TrafficClass(p) == (p[1] % 16) * 16 + p[2] \div 16
Ipv6FlowLabel(p) == (p[2] % 16) * 65536 + BeInt(p, 3, 4)
Ipv6HopLimit(p) == p[8]

TcpSequence(p) == BeInt(p, 5, 8)
TcpAcknowledgement(p) == BeInt(p, 9, 12)
TcpDataOffset(p) == p[13] \div 16
\* the eight flag bits CWR..FIN
TcpFlags(p) == p[14]
TcpWindow(p) == BeInt(p, 15, 16)
\* payload(): what follows the options, data_offset * 4 - 20 bytes of them
\* (saturating)
TcpPayload(p) ==
    LET start == TCP_MIN + Max(TcpDataOffset(p) * 4 - TCP_MIN, 0)
    IN  IF Len(p) <= start THEN <<>> ELSE SubSeq(p, start + 1, Len(p))

UdpLength(p) == BeInt(p, 5, 6)
UdpChecksum(p) == BeInt(p, 7, 8)
\* payload(): everything after the 8-byte header
UdpPayload(p) == SubSeq(p, UDP_MIN + 1, Len(p))

\* Display of IpNextHeaderProtocol, for the protocol numbers of the frames
NextHeaderName(n) ==
    CASE n = 0 -> "Hopopt"
      [] n = IPPROTO_ICMP -> "Icmp"
      [] n = IPPROTO_TCP -> "Tcp"
      [] n = IPPROTO_UDP -> "Udp"
      [] n = 47 -> "Gre"
      [] n = IPPROTO_ICMPV6 -> "Icmpv6"
      [] OTHER -> "unknown"

\* variant: ICMP is not told apart
Ipv4Proto_noIcmp(nlp) ==
    CASE nlp = IPPROTO_TCP -> "TCP"
      [] nlp = IPPROTO_UDP -> "UDP"
      [] OTHER -> "IPv4"

Ipv4Proto(nlp) ==
    CASE nlp = IPPROTO_TCP -> "TCP"
      [] nlp = IPPROTO_UDP -> "UDP"
      [] nlp = IPPROTO_ICMP -> "ICMP"
      [] OTHER -> "IPv4"

Ipv6Proto(nh) ==
    CASE nh = IPPROTO_TCP -> "TCP"
      [] nh = IPPROTO_UDP -> "UDP"
      [] nh = IPPROTO_ICMPV6 -> "ICMPv6"
      [] OTHER -> "IPv6"

\* variant: no port is ever appended
Ipv4Info_plain(p, src, dst) == src \o " → " \o dst

\* dissector.rs:35-51 info_str of an IPv4 frame
Ipv4Info(p, src, dst) ==
    LET plain == src \o " → " \o dst
        nlp == Ipv4NextLevelProtocol(p)
        l4 == Ipv4Payload(p)
    IN  IF nlp = IPPROTO_TCP /\ TcpNew(l4)
        THEN plain \o " [" \o ToDec(L4Destination(l4)) \o "]"
        ELSE IF nlp = IPPROTO_UDP /\ UdpNew(l4)
        THEN plain \o " [" \o ToDec(L4Destination(l4)) \o "]"
        ELSE plain

\* variant: every frame is admitted, parsed or not
Admit_always(summary) == TRUE

\* capture.rs:99 if let Some(summary) = ..
Admit(summary) == summary.present

\* parse_summary: Absent when the Ethernet header (or, for an IP ethertype,
\* the IP header) does not fit; otherwise the summary record.
parse_summary(raw_data, id, timestamp_ns) ==
    IF ~EthernetNew(raw_data) THEN Absent
    ELSE LET et == EtherType(raw_data)
             pl == EtherPayload(raw_data)
             mk(src, dst, p, info) ==
                 [present |-> TRUE, id |-> id, timestamp |-> timestamp_ns,
                  source_addr |-> src, dest_addr |-> dst, protocol |-> p,
                  length |-> Len(raw_data), info |-> info]
         IN  CASE et = ETHERTYPE_IPV4 ->
                    IF ~Ipv4New(pl) THEN Absent
                    ELSE LET src == Ipv4ToString(Ipv4Source(pl))
                             dst == Ipv4ToString(Ipv4Destination(pl))
                         IN  mk(src, dst, Ipv4Proto(Ipv4NextLevelProtocol(pl)),
                                Ipv4Info(pl, src, dst))
               [] et = ETHERTYPE_IPV6 ->
                    IF ~Ipv6New(pl) THEN Absent
                    ELSE LET src == Ipv6ToString(Ipv6Source(pl))
                             dst == Ipv6ToString(Ipv6Destination(pl))
                         IN  mk(src, dst, Ipv6Proto(Ipv6NextHeader(pl)),
                                src \o " → " \o dst)
               [] et = ETHERTYPE_ARP ->
                    mk(MacToString(EtherSource(raw_data)),
                       MacToString(EtherDestination(raw_data)), "ARP", "ARP")
               [] OTHER ->
                    mk(MacToString(EtherSource(raw_data)),
                       MacToString(EtherDestination(raw_data)), "Unknown", "Unknown")

\* ProtocolLayer: a name and (key, value) fields in order
Layer(name, fields) == [name |-> name, fields |-> fields]

\* std::str::from_utf8(b) is Ok: every byte from i on belongs to a well-formed
\* sequence (no overlong form, no surrogate, nothing above U+10FFFF)
RECURSIVE Utf8From(_, _)
Utf8From(b, i) ==
    LET c == b[i]
        cont(k) == k <= Len(b) /\ b[k] \in 128..191
        second(lo, hi) == i + 1 <= Len(b) /\ b[i + 1] \in lo..hi
    IN  IF i > Len(b) THEN TRUE
        ELSE IF c < 128 THEN Utf8From(b, i + 1)
        ELSE IF c \in 194..223 THEN cont(i + 1) /\ Utf8From(b, i + 2)
        ELSE IF c \in 224..239
        THEN /\ second(IF c = 224 THEN 160 ELSE 128, IF c = 237 THEN 159 ELSE 191)
             /\ cont(i + 2)
             /\ Utf8From(b, i + 3)
        ELSE IF c \in 240..244
        THEN /\ second(IF c = 240 THEN 144 ELSE 128, IF c = 244 THEN 143 ELSE 191)
             /\ cont(i + 2) /\ cont(i + 3)
             /\ Utf8From(b, i + 4)
        ELSE FALSE

Utf8Valid(b) == Utf8From(b, 1)

\* str::starts_with on the bytes of an ASCII pattern
StartsWith(b, pat) == Len(b) >= Len(pat) /\ SubSeq(b, 1, Len(pat)) = pat

\* the ASCII bytes of "GET", "POST", "PUT", "DELETE", "HTTP/"
GET == <<71, 69, 84>>
POST == <<80, 79, 83, 84>>
PUT == <<80, 85, 84>>
DELETE == <<68, 69, 76, 69, 84, 69>>
HTTP_SLASH == <<72, 84, 84, 80, 47>>
\* dissector.rs:297 payload[..payload.len().min(100)]
HTTP_PEEK == 100

\* dissector.rs:306-316 the field the start of the text gives, if any
HttpFields(payload_str) ==
    IF StartsWith(payload_str, GET) THEN <<<<"Method", "GET">>>>
    ELSE IF StartsWith(payload_str, POST) THEN <<<<"Method", "POST">>>>
    ELSE IF StartsWith(payload_str, PUT) THEN <<<<"Method", "PUT">>>>
    ELSE IF StartsWith(payload_str, DELETE) THEN <<<<"Method", "DELETE">>>>
    ELSE IF StartsWith(payload_str, HTTP_SLASH) THEN <<<<"Type", "Response">>>>
    ELSE <<>>

\* dissector.rs:297 from_utf8 of the first 100 bytes at most
HttpText(payload) ==
    LET head == SubSeq(payload, 1, Min(Len(payload), HTTP_PEEK))
    IN  [ok |-> Utf8Valid(head), str |-> head]

\* dissector.rs:281 src_port == 53 || dst_port == 53
IsDns(src_port, dst_port) == src_port = 53 \/ dst_port = 53

\* variant: the DNS branch does not return and falls through to the fallback
parse_application_layer_fallthrough(src_port, dst_port, payload, is_tcp) ==
    LET len_field == <<"Payload Length", Bytes(Len(payload))>>
    IN  IF payload = <<>> THEN <<>>
        ELSE (IF IsDns(src_port, dst_port)
              THEN <<Layer("Domain Name System", <<<<"Port", "53">>, len_field>>)>>
              ELSE <<>>)
             \o <<Layer("Application Data", <<len_field>>)>>

\* dissector.rs:269-335 parse_application_layer: the layers it pushes
parse_application_layer(src_port, dst_port, payload, is_tcp) ==
    LET len_field == <<"Payload Length", Bytes(Len(payload))>>
        web == is_tcp /\ (src_port = 80 \/ dst_port = 80 \/ src_port = 443 \/ dst_port = 443)
        text == HttpText(payload)
        http_fields == IF web /\ text.ok THEN HttpFields(text.str) ELSE <<>>
    IN  IF payload = <<>> THEN <<>>
        ELSE IF IsDns(src_port, dst_port)
        THEN <<Layer("Domain Name System",
                     <<<<"Port", IF src_port = 53 THEN "53 (Response)" ELSE "53 (Query)">>,
                       len_field>>)>>
        ELSE IF http_fields # <<>>
        THEN <<Layer(IF src_port = 443 \/ dst_port = 443
                     THEN "Hypertext Transfer Protocol Secure"
                     ELSE "Hypertext Transfer Protocol",
                     Append(http_fields, len_field))>>
        ELSE <<Layer("Application Data", <<len_field>>)>>

\* dissector.rs:96-104 the Ethernet layer
EthernetLayer(raw_data) ==
    Layer("Ethernet",
          <<<<"Destination", MacToString(EtherDestination(raw_data))>>,
            <<"Source", MacToString(EtherSource(raw_data))>>,
            <<"Type", "0x" \o HexPad(EtherType(raw_data), 4)>>>>)

\* dissector.rs:110-123
Ipv4Layer(p) ==
    Layer("Internet Protocol Version 4",
          <<<<"Version", "4">>,
            <<"Header Length", Bytes(Ipv4HeaderLength(p) * 4)>>,
            <<"Total Length", Bytes(Ipv4TotalLength(p))>>,
            <<"Identification", "0x" \o HexPad(Ipv4Identification(p), 4)>>,
            <<"Flags", "0x" \o HexPad(Ipv4Flags(p), 2)>>,
            <<"TTL", ToDec(Ipv4Ttl(p))>>,
            <<"Protocol", ToDec(Ipv4NextLevelProtocol(p)) \o " (" \o
                          NextHeaderName(Ipv4NextLevelProtocol(p)) \o ")">>,
            <<"Source", Ipv4ToString(Ipv4Source(p))>>,
            <<"Destination", Ipv4ToString(Ipv4Destination(p))>>>>)

\* dissector.rs:181-193
Ipv6Layer(p) ==
    Layer("Internet Protocol Version 6",
          <<<<"Version", "6">>,
            <<"Traffic Class", "0x" \o HexPad(Ipv6TrafficClass(p), 2)>>,
            <<"Flow Label", "0x" \o HexPad(Ipv6FlowLabel(p), 5)>>,
            <<"Payload Length", Bytes(Ipv6PayloadLength(p))>>,
            <<"Next Header", ToDec(Ipv6NextHeader(p)) \o " (" \o
                             NextHeaderName(Ipv6NextHeader(p)) \o ")">>,
            <<"Hop Limit", ToDec(Ipv6HopLimit(p))>>,
            <<"Source", Ipv6ToString(Ipv6Source(p))>>,
            <<"Destination", Ipv6ToString(Ipv6Destination(p))>>>>)

\* dissector.rs:129-140 and 199-210
TcpLayer(p) ==
    Layer("Transmission Control Protocol",
          <<<<"Source Port", ToDec(L4Source(p))>>,
            <<"Destination Port", ToDec(L4Destination(p))>>,
            <<"Sequence Number", ToDec(TcpSequence(p))>>,
            <<"Acknowledgment Number", ToDec(TcpAcknowledgement(p))>>,
            <<"Data Offset", Bytes(TcpDataOffset(p) * 4)>>,
            <<"Flags", "0x" \o HexPad(TcpFlags(p), 2)>>,
            <<"Window Size", ToDec(TcpWindow(p))>>>>)

\* dissector.rs:151-159 and 220-228
UdpLayer(p) ==
    Layer("User Datagram Protocol",
          <<<<"Source Port", ToDec(L4Source(p))>>,
            <<"Destination Port", ToDec(L4Destination(p))>>,
            <<"Length", Bytes(UdpLength(p))>>,
            <<"Checksum", "0x" \o HexPad(UdpChecksum(p), 4)>>>>)

\* dissector.rs:127-169 and 197-238 the transport layer of protocol nlp in
\* the IP payload p, then what the classifier adds for a non-empty payload
TransportLayers(nlp, p) ==
    IF nlp = IPPROTO_TCP /\ TcpNew(p)
    THEN <<TcpLayer(p)>> \o
         (IF TcpPayload(p) # <<>>
          THEN parse_application_layer(L4Source(p), L4Destination(p), TcpPayload(p), TRUE)
          ELSE <<>>)
    ELSE IF nlp = IPPROTO_UDP /\ UdpNew(p)
    THEN <<UdpLayer(p)>> \o
         (IF UdpPayload(p) # <<>>
          THEN parse_application_layer(L4Source(p), L4Destination(p), UdpPayload(p), FALSE)
          ELSE <<>>)
    ELSE <<>>

\* dissector.rs:106-256 the layers after "Ethernet"
UpperLayers(raw_data) ==
    LET et == EtherType(raw_data)
        pl == EtherPayload(raw_data)
    IN  CASE et = ETHERTYPE_IPV4 ->
               <<Ipv4Layer(pl)>> \o
               (IF Ipv4NextLevelProtocol(pl) = IPPROTO_ICMP
                THEN <<Layer("Internet Control Message Protocol",
                             <<<<"Payload Length", Bytes(Len(Ipv4Payload(pl)))>>>>)>>
                ELSE TransportLayers(Ipv4NextLevelProtocol(pl), Ipv4Payload(pl)))
          [] et = ETHERTYPE_IPV6 ->
               <<Ipv6Layer(pl)>> \o TransportLayers(Ipv6NextHeader(pl), Ipv6Payload(pl))
          [] et = ETHERTYPE_ARP ->
               <<Layer("Address Resolution Protocol",
                       <<<<"Payload Length", Bytes(Len(pl))>>>>)>>
          [] OTHER -> <<>>

\* variant: present whenever the Ethernet header is
dissect_packet_ethernetOnly(raw_data, id) == [present |-> EthernetNew(raw_data)]

\* dissector.rs:91-266 dissect_packet: Absent where a `?` returns None; the
\* embedded summary is parse_summary(raw_data, id, 0)
dissect_packet(raw_data, id) ==
    IF ~EthernetNew(raw_data) THEN Absent
    ELSE IF EtherType(raw_data) = ETHERTYPE_IPV4 /\ ~Ipv4New(EtherPayload(raw_data))
    THEN Absent
    ELSE IF EtherType(raw_data) = ETHERTYPE_IPV6 /\ ~Ipv6New(EtherPayload(raw_data))
    THEN Absent
    ELSE LET summary == parse_summary(raw_data, id, NsZero)
         IN  IF ~summary.present THEN Absent
             ELSE [present |-> TRUE, summary |-> summary,
                   layers |-> <<EthernetLayer(raw_data)>> \o UpperLayers(raw_data),
                   raw_bytes |-> raw_data]

\* ------------------------------------------------------------ timestamps
\* variant: the microseconds of the header are dropped
TimestampNs_secOnly(tv_sec, tv_usec) == <<tv_sec, 0>>

\* capture.rs:54-55 tv_sec * 1_000_000_000 + tv_usec * 1_000 in i64 (no
\* overflow for |tv_sec| < 2^33), brought to quotient and remainder
TimestampNs(tv_sec, tv_usec) ==
    LET n == tv_usec * NS_PER_US
        fq == WideAdd(tv_sec, n \div NS_PER_SEC)
        fr == n % NS_PER_SEC
    IN  IF WideNeg(fq) /\ fr > 0
        THEN <<WideAdd(fq, 1), fr - NS_PER_SEC>>
        ELSE <<fq, fr>>

\* export.rs:68 (timestamp_ns / 1_000_000_000) as u32
ExportSec(timestamp_ns) == AsU32(timestamp_ns[1])
\* export.rs:70 ((timestamp_ns % 1_000_000_000) / 1_000).min(999_999) as u32
ExportUsec(timestamp_ns) ==
    AsU32(WideOf(Min(TruncDiv(timestamp_ns[2], NS_PER_US), USEC_MAX)))


\* ------------------------------------------------------------------ state
VARIABLES
    stop_tx,        \* AppState.stop_tx: 0 = None, s = Some(sender of session s)
    packet_cache,   \* AppState.packet_cache: id -> [data, timestamp_ns]
    nsess,          \* sessions spawned so far
    cpc,            \* position of each run_capture task
    ppc,            \* position of each producer thread
    open_err,       \* error run_capture returned from the device open
    id_counter,     \* producer's id_counter
    queue,          \* packet channel (packet_tx -> packet_rx)
    stop_ch,        \* messages waiting in the capacity-1 stop channel
    batch,          \* consumer's batch
    elapsed,        \* ticks since last_emit (saturating at MaxElapsed)
    emitted,        \* log of emit_all("new_packet_batch", ..) calls
    first_ok,       \* history: id of the first frame read that parses (0: none yet)
    headers,        \* history: header timestamp (tv_sec, tv_usec) of each id read
    admitted,       \* history: ids each consumer admitted, in order
    starved,        \* history: a tick since last_emit ended with an empty batch
    trimmed,        \* history: session whose insert last evicted (0: none since clear)
    ncalls,         \* command-surface calls made
    ret,            \* last command and what it returned
    start_ret,      \* what the start_capture that spawned each session returned
    file,           \* destination file of export_pcap
    req,            \* history: id list of the last export_pcap call
    detail,         \* what the last get_packet_detail call looked up and got
    crit,           \* history: work each holder of the cache lock did inside it
    stop_sends,     \* history: try_send calls made on each session's stop channel
    probe           \* a direct call of parse_summary: its arguments and result

vars == <<stop_tx, packet_cache, nsess, cpc, ppc, open_err, id_counter, queue,
          stop_ch, batch, elapsed, emitted, first_ok, headers, admitted, starved, trimmed,
          ncalls, ret, start_ret, file, req, detail, crit, stop_sends, probe>>

\* what the pipeline and the lifecycle commands never touch
callVars == <<detail, probe>>

sessVars == <<cpc, ppc, open_err, id_counter, queue, stop_ch, batch, elapsed,
              first_ok, headers, admitted, starved>>

EmptyCache == [k \in {} |-> None]
\* the destination path before any export: no file there
NoFile == [exists |-> FALSE]
\* no get_packet_detail call yet, no parse_summary call yet
NoCall == [called |-> FALSE]
\* holders of the packet_cache mutex
Holders == {"start_capture", "run_capture", "get_packet_detail", "export_pcap"}
\* crit with work w added to what holder h did under the lock
Locked(c, h, w) == [c EXCEPT ![h] = @ \cup w]

\* the state after run() has built AppState: nothing captured, no call made
InitApp ==
    /\ stop_tx = 0
    /\ packet_cache = EmptyCache
    /\ nsess = 0
    /\ cpc = [s \in Sessions |-> "unspawned"]
    /\ ppc = [s \in Sessions |-> "none"]
    /\ open_err = [s \in Sessions |-> None]
    /\ id_counter = [s \in Sessions |-> 0]
    /\ queue = [s \in Sessions |-> <<>>]
    /\ stop_ch = [s \in Sessions |-> 0]
    /\ batch = [s \in Sessions |-> <<>>]
    /\ elapsed = [s \in Sessions |-> 0]
    /\ emitted = <<>>
    /\ first_ok = [s \in Sessions |-> 0]
    /\ headers = [s \in Sessions |-> <<>>]
    /\ admitted = [s \in Sessions |-> <<>>]
    /\ starved = [s \in Sessions |-> FALSE]
    /\ trimmed = 0
    /\ ncalls = 0
    /\ ret = [op |-> "none", val |-> "none", count |-> 0]
    /\ start_ret = [s \in Sessions |-> None]
    /\ file = NoFile
    /\ req = <<>>
    /\ detail = NoCall
    /\ crit = [h \in Holders |-> {}]
    /\ stop_sends = [s \in Sessions |-> 0]

Init == InitApp /\ probe = NoCall

\* the same, with the arguments of one direct parse_summary call chosen
InitDissect ==
    /\ InitApp
    /\ probe \in [called : {FALSE}, raw_data : ProbeFrames, id : ProbeIds,
                  timestamp_ns : ProbeTimestamps]

\* the same, with the cached timestamp of one run of the conversion chosen
InitStamp ==
    /\ InitApp
    /\ probe \in [called : {FALSE}, timestamp_ns : ProbeStamps]

\* the same, with the arguments of one direct dissect_packet call chosen
InitDissectPacket ==
    /\ InitApp
    /\ probe \in [called : {FALSE}, raw_data : DetailFrames, id : ProbeIds]

\* the same, with the arguments of one direct parse_application_layer call
InitClassify ==
    /\ InitApp
    /\ probe \in [called : {FALSE}, src_port : ProbePorts, dst_port : ProbePorts,
                  payload : ProbePayloads, is_tcp : BOOLEAN]

\* ------------------------------------------------------ pieces of the code
\* variant: the guard never rejects
AlreadyCapturing_never(tx) == FALSE

\* lib.rs:66 stop_tx_guard.is_some()
AlreadyCapturing(tx) == tx # 0

\* The receivers (stop_rx, packet_rx) are locals of run_capture: they live
\* from the spawn until the task returns, the join at capture.rs:160 included.
TaskAlive(pc) == pc \in {"spawned", "select", "select_ready", "drain", "joining"}
PacketRxAlive(pc) == pc \in {"select", "select_ready", "drain", "joining"}

\* capture.rs:80-93: select! is entered with a fresh 10 ms sleep.  With a stop
\* message already queued only the stop branch is ready ("select_ready");
\* otherwise the task waits ("select") and, when a stop message arrives
\* during the wait, either branch can be the one that is taken.
SelectEntry(stop_msgs) == IF stop_msgs >= 1 THEN "select_ready" ELSE "select"

\* capture.rs:50 id_counter += 1
NextId(c) == c + 1

\* the k smallest keys: cache.keys().take(k)
RECURSIVE SmallestK(_, _)
SmallestK(S, k) ==
    IF k = 0 \/ S = {} THEN {}
    ELSE LET m == CHOOSE x \in S : \A y \in S : x <= y
         IN  {m} \cup SmallestK(S \ {m}, k - 1)

RECURSIVE LargestK(_, _)
LargestK(S, k) ==
    IF k = 0 \/ S = {} THEN {}
    ELSE LET m == CHOOSE x \in S : \A y \in S : x >= y
         IN  {m} \cup LargestK(S \ {m}, k - 1)

\* variant: the insert is skipped
CachePut_skip(cache, id, pkt) == cache

\* capture.rs:103-106 cache.insert(packet_id, CachedPacket {..})
CachePut(cache, id, pkt) ==
    [k \in DOMAIN cache \cup {id} |-> IF k = id THEN pkt ELSE cache[k]]

\* capture.rs:111-118 eviction of the lowest ids above MAX_CACHE_SIZE
CacheEvict(cache) ==
    IF Cardinality(DOMAIN cache) > MAX_CACHE_SIZE
    THEN LET to_remove == Cardinality(DOMAIN cache) - MAX_CACHE_SIZE
             keys_to_remove == SmallestK(DOMAIN cache, to_remove)
         IN  [k \in DOMAIN cache \ keys_to_remove |-> cache[k]]
    ELSE cache

\* capture.rs:102-119 the whole critical section
CacheInsert(cache, id, pkt) == CacheEvict(CachePut(cache, id, pkt))

\* variant: the summary is put at the head of the batch
BatchPush_front(b, summary) == <<summary>> \o b

\* capture.rs:125 batch.push(summary)
BatchPush(b, summary) == Append(b, summary)

\* variant: the timeout clause is missing
ShouldEmit_sizeOnly(b, el) == Len(b) >= BATCH_SIZE

\* capture.rs:145-146 should_emit
ShouldEmit(b, el) == Len(b) >= BATCH_SIZE \/ el >= BATCH_TIMEOUT_TICKS

\* one emit_all("new_packet_batch", &batch) call
Event(s, cause, b) ==
    [sess |-> s, cause |-> cause, batch |-> b]

\* variant: the loop is left without flushing
FinalFlush_none(log, s, cause, b) == log

\* capture.rs:84-89 and 134-138: flush on leaving the loop
FinalFlush(log, s, cause, b) ==
    IF b # <<>> THEN Append(log, Event(s, cause, b)) ELSE log

\* variant: the batch is not asked whether it is empty
TickFlush_unguarded(log, s, b) ==
    IF ShouldEmit(b, elapsed[s]) THEN Append(log, Event(s, "tick", b)) ELSE log

\* capture.rs:148-154: emission on a tick
TickFlush(log, s, b) ==
    IF ShouldEmit(b, elapsed[s]) /\ b # <<>>
    THEN Append(log, Event(s, "tick", b)) ELSE log


Ret(op, val) == [op |-> op, val |-> val, count |-> 0]

\* --------------------------------------------------------- command surface
\* lib.rs:59-90.  The guard is set under the stop_tx lock, the cache is
\* cleared under the cache lock and the task is spawned; run_capture, the
\* device open included, runs inside the spawned task, so the call returns
\* Ok(()) whatever the open does.
StartCapture ==
    /\ ncalls < MaxCalls
    /\ ncalls' = ncalls + 1
    /\ IF AlreadyCapturing(stop_tx)
       THEN /\ ret' = Ret("start_capture", "Capture already in progress")
            /\ UNCHANGED <<stop_tx, packet_cache, nsess, start_ret, file, req,
                           trimmed, emitted, crit, sessVars>>
       ELSE /\ nsess < MaxSess
            /\ nsess' = nsess + 1
            /\ stop_tx' = nsess + 1
            /\ packet_cache' = EmptyCache
            /\ crit' = Locked(crit, "start_capture", {"clear"})
            /\ trimmed' = 0
            /\ cpc' = [cpc EXCEPT ![nsess + 1] = "spawned"]
            /\ start_ret' = [start_ret EXCEPT ![nsess + 1] = "Ok"]
            /\ ret' = Ret("start_capture", "Ok")
            /\ UNCHANGED <<ppc, open_err, id_counter, queue, stop_ch, batch,
                           elapsed, emitted, first_ok, headers, admitted, starved, file, req>>
    /\ UNCHANGED <<callVars, stop_sends>>

\* variant: the sender is left in the state
TakeSender_keep(tx) == tx

\* lib.rs:106 stop_tx_guard.take(): what is left in stop_tx
TakeSender(tx) == 0

\* lib.rs:103-110: take() the sender, try_send on it, drop it.
StopCapture ==
    /\ ncalls < MaxCalls
    /\ ncalls' = ncalls + 1
    /\ IF stop_tx = 0
       THEN /\ ret' = Ret("stop_capture", "Ok")
            /\ UNCHANGED <<stop_tx, stop_ch, stop_sends>>
       ELSE /\ stop_tx' = TakeSender(stop_tx)
            /\ stop_sends' = [stop_sends EXCEPT ![stop_tx] = @ + 1]
            /\ IF ~TaskAlive(cpc[stop_tx])
               THEN /\ ret' = Ret("stop_capture", "Failed to send stop signal: channel closed")
                    /\ UNCHANGED stop_ch
               ELSE IF stop_ch[stop_tx] >= 1
               THEN /\ ret' = Ret("stop_capture", "Failed to send stop signal: no available capacity")
                    /\ UNCHANGED stop_ch
               ELSE /\ ret' = Ret("stop_capture", "Ok")
                    /\ stop_ch' = [stop_ch EXCEPT ![stop_tx] = 1]
    /\ UNCHANGED <<packet_cache, nsess, cpc, ppc, open_err, id_counter, queue,
                   batch, elapsed, emitted, first_ok, headers, admitted, starved, trimmed,
                   start_ret, file, req, crit, callVars>>

\* ------------------------------------------------------------- run_capture
\* capture.rs:15-75: open the device; on success spawn the producer thread
\* and enter the loop with an empty batch and last_emit = now.
OpenDevice(s) ==
    /\ cpc[s] = "spawned"
    /\ \E outcome \in {"Ok", "PermissionError", "Failed to open device"} :
          IF outcome = "Ok"
          THEN /\ cpc' = [cpc EXCEPT ![s] = SelectEntry(stop_ch[s])]
               /\ ppc' = [ppc EXCEPT ![s] = "running"]
               /\ UNCHANGED open_err
          ELSE /\ cpc' = [cpc EXCEPT ![s] = "open_failed"]
               /\ open_err' = [open_err EXCEPT ![s] = outcome]
               /\ UNCHANGED ppc
    /\ UNCHANGED <<stop_tx, packet_cache, nsess, id_counter, queue, stop_ch,
                   batch, elapsed, emitted, first_ok, headers, admitted, starved, trimmed,
                   ncalls, ret, start_ret, file, req, crit, callVars, stop_sends>>

\* frames read so far by all producers
RECURSIVE SumUpTo(_, _)
SumUpTo(f, n) == IF n = 0 THEN 0 ELSE f[n] + SumUpTo(f, n - 1)
FramesRead(counters) == SumUpTo(counters, MaxSess)

\* h with the header timestamp ts recorded for id
Stamped(h, id, ts) == [k \in DOMAIN h \cup {id} |-> IF k = id THEN ts ELSE h[k]]

\* capture.rs:47-71: one turn of the producer loop, the device delivering
\* frames of the set F with header timestamps of the set TS, at most budget
\* of them.
ProducerLoop(s, F, TS, budget) ==
    /\ ppc[s] = "running"
    /\ \E outcome \in {"frame", "timeout", "fatal"} :
          CASE outcome = "frame" ->
                 /\ FramesRead(id_counter) < budget
                 /\ \E data \in F, ts \in TS :
                       /\ id_counter' = [id_counter EXCEPT ![s] = NextId(@)]
                       /\ headers' = [headers EXCEPT ![s] =
                            Stamped(@, NextId(id_counter[s]), ts)]
                       /\ first_ok' = [first_ok EXCEPT ![s] =
                            IF @ = 0 /\ parse_summary(data, 0, NsZero).present
                            THEN NextId(id_counter[s]) ELSE @]
                       /\ IF PacketRxAlive(cpc[s])
                          THEN /\ queue' = [queue EXCEPT ![s] =
                                    Append(@, [id |-> NextId(id_counter[s]),
                                               data |-> data,
                                               timestamp_ns |-> TimestampNs(ts[1], ts[2])])]
                               /\ UNCHANGED ppc
                          ELSE /\ ppc' = [ppc EXCEPT ![s] = "ended"]
                               /\ UNCHANGED queue
            [] outcome = "timeout" ->
                 UNCHANGED <<id_counter, first_ok, headers, queue, ppc>>
            [] outcome = "fatal" ->
                 /\ ppc' = [ppc EXCEPT ![s] = "ended"]
                 /\ UNCHANGED <<id_counter, first_ok, headers, queue>>
    /\ UNCHANGED <<stop_tx, packet_cache, nsess, cpc, open_err, stop_ch, batch,
                   elapsed, emitted, admitted, starved, trimmed, ncalls, ret,
                   start_ret, file, req, crit, callVars, stop_sends>>

ProducerStep(s) == ProducerLoop(s, Frames, Timestamps, MaxFrames)
ProducerStepLong(s) == ProducerLoop(s, FramesLong, Timestamps, MaxFramesLong)
ProducerStepMixed(s) == ProducerLoop(s, Frames, Timestamps, MaxFramesLong)
\* a device whose clock reads anything from the epoch to the last second
\* that fits 32 bits
\* a device on a network carrying frames of every fate
ProducerStepAnyFate(s) == ProducerLoop(s, FramesAnyFate, Timestamps, MaxFrames)
ProducerStepStamps(s) == ProducerLoop(s, FramesLong, HeaderStamps, MaxFrames)

\* capture.rs:45 id_counter is a u64: ID_MODULUS stands for 2^64, scaled
ID_MODULUS == MaxFramesLong
\* frames of a device under flood: runts, dropped by the consumer
FramesFlood == {ShortFrame}

\* capture.rs:47-71 with a device that never runs out of frames.  The channel
\* is unbounded; here at most MaxFrames frames wait in it.  At the top of the
\* u64 range `id_counter += 1` wraps (release build) or panics, which ends
\* the thread and drops packet_tx (debug build).
ProducerFlood(s) ==
    /\ ppc[s] = "running"
    /\ \E outcome \in {"frame", "wrap_panic", "timeout", "fatal"} :
          CASE outcome = "frame" ->
                 /\ Len(queue[s]) < MaxFrames
                 /\ \E data \in FramesFlood, ts \in Timestamps :
                       LET id == NextId(id_counter[s]) % ID_MODULUS
                       IN  /\ id_counter' = [id_counter EXCEPT ![s] = id]
                           /\ headers' = [headers EXCEPT ![s] = Stamped(@, id, ts)]
                           /\ first_ok' = [first_ok EXCEPT ![s] =
                                IF @ = 0 /\ parse_summary(data, 0, NsZero).present
                                THEN id ELSE @]
                           /\ IF PacketRxAlive(cpc[s])
                              THEN /\ queue' = [queue EXCEPT ![s] =
                                        Append(@, [id |-> id, data |-> data,
                                                   timestamp_ns |-> TimestampNs(ts[1], ts[2])])]
                                   /\ UNCHANGED ppc
                              ELSE /\ ppc' = [ppc EXCEPT ![s] = "ended"]
                                   /\ UNCHANGED queue
            [] outcome = "wrap_panic" ->
                 /\ NextId(id_counter[s]) = ID_MODULUS
                 /\ ppc' = [ppc EXCEPT ![s] = "ended"]
                 /\ UNCHANGED <<id_counter, first_ok, headers, queue>>
            [] outcome = "timeout" ->
                 UNCHANGED <<id_counter, first_ok, headers, queue, ppc>>
            [] outcome = "fatal" ->
                 /\ ppc' = [ppc EXCEPT ![s] = "ended"]
                 /\ UNCHANGED <<id_counter, first_ok, headers, queue>>
    /\ UNCHANGED <<stop_tx, packet_cache, nsess, cpc, open_err, stop_ch, batch,
                   elapsed, emitted, admitted, starved, trimmed, ncalls, ret,
                   start_ret, file, req, crit, callVars, stop_sends>>

\* capture.rs:82-91: the stop branch of select!, then the join at line 160.
StopBranch(s) ==
    /\ cpc[s] \in {"select", "select_ready"}
    /\ stop_ch[s] >= 1
    /\ stop_ch' = [stop_ch EXCEPT ![s] = @ - 1]
    /\ emitted' = FinalFlush(emitted, s, "stop", batch[s])
    /\ batch' = [batch EXCEPT ![s] = <<>>]
    /\ cpc' = [cpc EXCEPT ![s] = "joining"]
    /\ elapsed' = [elapsed EXCEPT ![s] = 0]      \* last_emit is dead after the loop
    /\ starved' = [starved EXCEPT ![s] = FALSE]
    /\ UNCHANGED <<stop_tx, packet_cache, nsess, ppc, open_err, id_counter,
                   queue, first_ok, headers, admitted, trimmed, ncalls,
                   ret, start_ret, file, req, crit, callVars, stop_sends>>

\* capture.rs:160-162: cap_handle.join() returns once the producer has ended.
JoinDone(s) ==
    /\ cpc[s] = "joining"
    /\ ppc[s] = "ended"
    /\ cpc' = [cpc EXCEPT ![s] = "done"]
    /\ UNCHANGED <<stop_tx, packet_cache, nsess, ppc, open_err, id_counter,
                   queue, stop_ch, batch, elapsed, emitted, first_ok, headers, admitted,
                   starved, trimmed, ncalls, ret, start_ret, file, req, crit, callVars, stop_sends>>

\* capture.rs:93: the 10 ms sleep of select! completes.
TickBegin(s) ==
    /\ cpc[s] = "select"
    /\ cpc' = [cpc EXCEPT ![s] = "drain"]
    /\ elapsed' = [elapsed EXCEPT ![s] = Min(@ + 1, MaxElapsed)]
    /\ UNCHANGED <<stop_tx, packet_cache, nsess, ppc, open_err, id_counter,
                   queue, stop_ch, batch, emitted, first_ok, headers, admitted, starved,
                   trimmed, ncalls, ret, start_ret, file, req, crit, callVars, stop_sends>>

\* capture.rs:96-127: try_recv() = Ok(frame).
DrainFrame(s) ==
    /\ cpc[s] = "drain"
    /\ queue[s] # <<>>
    /\ LET f == Head(queue[s])
           summary == parse_summary(f.data, f.id, f.timestamp_ns)
           pkt == [data |-> f.data, timestamp_ns |-> f.timestamp_ns]
       IN  /\ queue' = [queue EXCEPT ![s] = Tail(@)]
           /\ IF Admit(summary)
              THEN /\ packet_cache' = CacheInsert(packet_cache, f.id, pkt)
                   /\ crit' = Locked(crit, "run_capture", {"insert"})
                   /\ trimmed' =
                        IF Cardinality(DOMAIN CachePut(packet_cache, f.id, pkt)) > MAX_CACHE_SIZE
                        THEN s ELSE trimmed
                   /\ batch' = [batch EXCEPT ![s] = BatchPush(@, summary)]
                   /\ admitted' = [admitted EXCEPT ![s] = Append(@, f.id)]
              ELSE UNCHANGED <<packet_cache, trimmed, batch, admitted, crit>>
    /\ UNCHANGED <<stop_tx, nsess, cpc, ppc, open_err, id_counter, stop_ch,
                   elapsed, emitted, first_ok, headers, starved, ncalls, ret, start_ret,
                   file, req, callVars, stop_sends>>

\* capture.rs:128-131 and 144-154: try_recv() = Empty, then the emit decision.
DrainEmpty(s) ==
    /\ cpc[s] = "drain"
    /\ queue[s] = <<>>
    /\ ppc[s] # "ended"
    /\ emitted' = TickFlush(emitted, s, batch[s])
    /\ IF emitted' # emitted
       THEN /\ batch' = [batch EXCEPT ![s] = <<>>]
            /\ elapsed' = [elapsed EXCEPT ![s] = 0]
            /\ starved' = [starved EXCEPT ![s] = FALSE]
       ELSE /\ starved' = [starved EXCEPT ![s] = @ \/ batch[s] = <<>>]
            /\ UNCHANGED <<batch, elapsed>>
    /\ cpc' = [cpc EXCEPT ![s] = SelectEntry(stop_ch[s])]
    /\ UNCHANGED <<stop_tx, packet_cache, nsess, ppc, open_err, id_counter,
                   queue, stop_ch, first_ok, headers, admitted, trimmed, ncalls, ret,
                   start_ret, file, req, crit, callVars, stop_sends>>

\* capture.rs:132-140: try_recv() = Disconnected (queue empty, sender gone).
DrainDisconnected(s) ==
    /\ cpc[s] = "drain"
    /\ queue[s] = <<>>
    /\ ppc[s] = "ended"
    /\ emitted' = FinalFlush(emitted, s, "disconnect", batch[s])
    /\ cpc' = [cpc EXCEPT ![s] = "done"]
    /\ batch' = [batch EXCEPT ![s] = <<>>]       \* the locals are dropped on return
    /\ elapsed' = [elapsed EXCEPT ![s] = 0]
    /\ starved' = [starved EXCEPT ![s] = FALSE]
    /\ UNCHANGED <<stop_tx, packet_cache, nsess, ppc, open_err, id_counter,
                   queue, stop_ch, first_ok, headers, admitted,
                   trimmed, ncalls, ret, start_ret, file, req, crit, callVars, stop_sends>>


\* ------------------------------------------------------------------ export
\* id lists a caller can pass: any order, repeats and unknown ids included
IdLists == UNION {[1..n -> 1..MaxFrames] : n \in 0..MaxIdList}

\* lib.rs:173-181: summaries of the ids that are cached and still parse
RECURSIVE BuildPacketList(_, _)
BuildPacketList(cache, packet_ids) ==
    IF packet_ids = <<>> THEN <<>>
    ELSE LET id == Head(packet_ids)
             rest == BuildPacketList(cache, Tail(packet_ids))
         IN  IF id \in DOMAIN cache
             THEN LET summary == parse_summary(cache[id].data, id, cache[id].timestamp_ns)
                  IN  IF summary.present THEN <<summary>> \o rest ELSE rest
             ELSE rest

\* lib.rs:188 packet_list.sort_by_key(|p| p.id): a stable sort
RECURSIVE InsertById(_, _)
InsertById(sorted, p) ==
    IF sorted = <<>> THEN <<p>>
    ELSE IF p.id < Head(sorted).id THEN <<p>> \o sorted
    ELSE <<Head(sorted)>> \o InsertById(Tail(sorted), p)

\* variant: the list is left in input order
SortById_none(list) == list

RECURSIVE SortById(_)
SortById(list) ==
    IF list = <<>> THEN <<>>
    ELSE InsertById(SortById(SubSeq(list, 1, Len(list) - 1)), list[Len(list)])

\* export.rs:10-27 the 24-byte global header, field by field
PcapHeader ==
    [magic |-> PCAP_MAGIC, version_major |-> PCAP_VERSION_MAJOR,
     version_minor |-> PCAP_VERSION_MINOR, thiszone |-> PCAP_THISZONE,
     sigfigs |-> PCAP_SIGFIGS, snaplen |-> PCAP_SNAPLEN, network |-> PCAP_NETWORK]

\* export.rs:29-48 one record: 16-byte header, then the bytes
write_packet(packet_data, timestamp_sec, timestamp_usec) ==
    [ts_sec |-> timestamp_sec, ts_usec |-> timestamp_usec,
     captured_len |-> Len(packet_data), original_len |-> Len(packet_data),
     data |-> packet_data]

\* export.rs:63-75 the record loop; ids is the id of each record written
RECURSIVE ExportRecords(_, _)
ExportRecords(cache, packet_list) ==
    IF packet_list = <<>> THEN [records |-> <<>>, ids |-> <<>>]
    ELSE LET packet == Head(packet_list)
             rest == ExportRecords(cache, Tail(packet_list))
         IN  IF packet.id \in DOMAIN cache
             THEN LET cached == cache[packet.id]
                  IN  [records |-> <<write_packet(cached.data,
                                         ExportSec(cached.timestamp_ns),
                                         ExportUsec(cached.timestamp_ns))>> \o rest.records,
                       ids |-> <<packet.id>> \o rest.ids]
             ELSE rest

\* variant: the empty id list is not rejected up front
EmptyIdList_never(packet_ids) == FALSE

\* lib.rs:165 packet_ids.is_empty()
EmptyIdList(packet_ids) == packet_ids = <<>>

\* variant: the count of ids asked for
ExportedCount_requested(packet_ids, packet_list) == Len(packet_ids)

\* lib.rs:190 exported_count = packet_list.len()
ExportedCount(packet_ids, packet_list) == Len(packet_list)

\* lib.rs:158-194 with export.rs:50-78.  The cache lock is taken at line 169
\* and held to the return: the lookups, the summaries and the file writes
\* are all inside it.
ExportPcap ==
    /\ ncalls < MaxCalls
    /\ ncalls' = ncalls + 1
    /\ \E packet_ids \in IdLists, create_ok \in BOOLEAN :
          /\ req' = packet_ids
          /\ IF EmptyIdList(packet_ids)
             THEN /\ ret' = Ret("export_pcap", "No packets to export")
                  /\ UNCHANGED <<file, crit>>
             ELSE LET packet_list == BuildPacketList(packet_cache, packet_ids)
                      found == SeqToSet(packet_ids) \cap DOMAIN packet_cache # {}
                      looked == {"get"} \cup (IF found THEN {"dissect"} ELSE {})
                  IN  IF packet_list = <<>>
                      THEN /\ ret' = Ret("export_pcap", "No valid packets found in cache")
                           /\ crit' = Locked(crit, "export_pcap", looked)
                           /\ UNCHANGED file
                      ELSE IF ~create_ok
                      THEN /\ ret' = Ret("export_pcap", "Failed to create file")
                           /\ crit' = Locked(crit, "export_pcap", looked \cup {"file_io"})
                           /\ UNCHANGED file
                      ELSE LET out == ExportRecords(packet_cache, SortById(packet_list))
                           IN  /\ file' = [exists |-> TRUE, header |-> PcapHeader,
                                           records |-> out.records,
                                           ids |-> out.ids]
                               /\ crit' = Locked(crit, "export_pcap", looked \cup {"file_io"})
                               /\ ret' = [op |-> "export_pcap", val |-> "Ok",
                                          count |-> ExportedCount(packet_ids, packet_list)]
    /\ UNCHANGED <<stop_tx, packet_cache, nsess, trimmed, emitted, start_ret,
                   sessVars, callVars, stop_sends>>

\* ------------------------------------------------------------------ detail
\* ids a caller can ask the detail of
DetailIds == 1..MaxFrames

\* readings of the system clock (SystemTime::now) at a call, in nanoseconds
\* since the epoch: later than every capture timestamp
ClockTimes == {<<WideOf(2), 0>>, <<WideOf(3), 250000000>>}

\* variant: the lookup always misses
CacheHas_never(cache, id) == FALSE

\* lib.rs:130 cache.get(&id) is Some
CacheHas(cache, id) == id \in DOMAIN cache

\* lib.rs:124-139.  The guard taken at line 129 lives to the end of the
\* function: dissect_packet runs inside the lock.  now is the system time at
\* which the call is made; the function does not read it.
GetPacketDetail ==
    /\ ncalls < MaxCalls
    /\ ncalls' = ncalls + 1
    /\ \E id \in DetailIds, now \in ClockTimes :
          IF CacheHas(packet_cache, id)
          THEN LET d == dissect_packet(packet_cache[id].data, id)
               IN  /\ detail' = [called |-> TRUE, id |-> id, now |-> now, result |-> d]
                   /\ crit' = Locked(crit, "get_packet_detail", {"get", "dissect"})
                   /\ ret' = Ret("get_packet_detail",
                                 IF d.present THEN "Ok" ELSE "Failed to dissect packet.")
          ELSE /\ detail' = [called |-> TRUE, id |-> id, now |-> now, result |-> Absent]
               /\ crit' = Locked(crit, "get_packet_detail", {"get"})
               /\ ret' = Ret("get_packet_detail", "Packet not found in cache.")
    /\ UNCHANGED <<stop_tx, packet_cache, nsess, trimmed, emitted, start_ret,
                   file, req, probe, stop_sends, sessVars>>

\* dissector.rs:21-88 called on a buffer directly
ParseSummaryCall ==
    /\ ~probe.called
    /\ probe' = [called |-> TRUE, raw_data |-> probe.raw_data, id |-> probe.id,
                 timestamp_ns |-> probe.timestamp_ns,
                 summary |-> parse_summary(probe.raw_data, probe.id, probe.timestamp_ns)]
    /\ UNCHANGED <<stop_tx, packet_cache, nsess, trimmed, emitted, start_ret,
                   ncalls, ret, file, req, detail, crit, stop_sends, sessVars>>

\* export.rs:67-70 run on a cached timestamp directly
ExportStampCall ==
    /\ ~probe.called
    /\ probe' = [called |-> TRUE, timestamp_ns |-> probe.timestamp_ns,
                 timestamp_sec |-> ExportSec(probe.timestamp_ns),
                 timestamp_usec |-> ExportUsec(probe.timestamp_ns)]
    /\ UNCHANGED <<stop_tx, packet_cache, nsess, trimmed, emitted, start_ret,
                   ncalls, ret, file, req, detail, crit, stop_sends, sessVars>>

\* dissector.rs:91-266 called on a buffer directly
DissectPacketCall ==
    /\ ~probe.called
    /\ probe' = [called |-> TRUE, raw_data |-> probe.raw_data, id |-> probe.id,
                 detail |-> dissect_packet(probe.raw_data, probe.id)]
    /\ UNCHANGED <<stop_tx, packet_cache, nsess, trimmed, emitted, start_ret,
                   ncalls, ret, file, req, detail, crit, stop_sends, sessVars>>

\* dissector.rs:269-335 called on its arguments directly
ClassifyCall ==
    /\ ~probe.called
    /\ probe' = [called |-> TRUE, src_port |-> probe.src_port,
                 dst_port |-> probe.dst_port, payload |-> probe.payload,
                 is_tcp |-> probe.is_tcp,
                 layers |-> parse_application_layer(probe.src_port, probe.dst_port,
                                                    probe.payload, probe.is_tcp)]
    /\ UNCHANGED <<stop_tx, packet_cache, nsess, trimmed, emitted, start_ret,
                   ncalls, ret, file, req, detail, crit, stop_sends, sessVars>>

\* ---------------------------------------------------------- specification
Consumer(s) ==
    \/ OpenDevice(s)
    \/ TickBegin(s)
    \/ DrainFrame(s)
    \/ DrainEmpty(s)
    \/ DrainDisconnected(s)

\* The capture lifecycle: start, stop and the workers of every session.
Next ==
    \/ StartCapture
    \/ StopCapture
    \/ \E s \in Sessions : ProducerStep(s)
    \/ \E s \in Sessions : Consumer(s)
    \/ \E s \in Sessions : StopBranch(s)
    \/ \E s \in Sessions : JoinDone(s)

Spec == Init /\ [][Next]_vars

\* The same lifecycle over a longer capture of frames that all parse.
NextLong ==
    \/ StartCapture
    \/ StopCapture
    \/ \E s \in Sessions : ProducerStepLong(s)
    \/ \E s \in Sessions : Consumer(s)
    \/ \E s \in Sessions : StopBranch(s)
    \/ \E s \in Sessions : JoinDone(s)

SpecLong == Init /\ [][NextLong]_vars

\* A running capture with exports taken at any moment of it.
NextExport ==
    \/ StartCapture
    \/ ExportPcap
    \/ \E s \in Sessions : ProducerStep(s)
    \/ \E s \in Sessions : Consumer(s)

SpecExport == Init /\ [][NextExport]_vars

\* The lifecycle over a longer capture of frames of both kinds.
NextMixed ==
    \/ StartCapture
    \/ StopCapture
    \/ \E s \in Sessions : ProducerStepMixed(s)
    \/ \E s \in Sessions : Consumer(s)
    \/ \E s \in Sessions : StopBranch(s)
    \/ \E s \in Sessions : JoinDone(s)

SpecMixed == Init /\ [][NextMixed]_vars

\* Exports taken during a long capture, whose inserts evict.
NextExportLong ==
    \/ StartCapture
    \/ ExportPcap
    \/ \E s \in Sessions : ProducerStepLong(s)
    \/ \E s \in Sessions : Consumer(s)

SpecExportLong == Init /\ [][NextExportLong]_vars

\* Exports taken during a capture on a device with any clock reading.
NextRoundTrip ==
    \/ StartCapture
    \/ ExportPcap
    \/ \E s \in Sessions : ProducerStepStamps(s)
    \/ \E s \in Sessions : Consumer(s)

SpecRoundTrip == Init /\ [][NextRoundTrip]_vars

\* The lifecycle with the scheduling the runtime gives: a spawned run_capture
\* task that can take a step is eventually polled (the open, the tick, each
\* try_recv, the stop branch, the return from join).  Nothing is assumed of
\* the device: frames, read timeouts and read errors come when they come.
Fairness ==
    \A s \in Sessions :
        /\ WF_vars(Consumer(s))
        /\ WF_vars(StopBranch(s))
        /\ WF_vars(JoinDone(s))

SpecFair == Init /\ [][Next]_vars /\ Fairness

\* The lifecycle on a device that delivers frames without end, under the
\* same scheduling.
NextFlood ==
    \/ StartCapture
    \/ StopCapture
    \/ \E s \in Sessions : ProducerFlood(s)
    \/ \E s \in Sessions : Consumer(s)
    \/ \E s \in Sessions : StopBranch(s)
    \/ \E s \in Sessions : JoinDone(s)

SpecFlood == Init /\ [][NextFlood]_vars /\ Fairness

\* A running capture with details asked at any moment of it.
NextDetail ==
    \/ StartCapture
    \/ GetPacketDetail
    \/ \E s \in Sessions : ProducerStep(s)
    \/ \E s \in Sessions : Consumer(s)

SpecDetail == Init /\ [][NextDetail]_vars

\* Details asked during a capture of frames of every fate.
NextAnyFate ==
    \/ StartCapture
    \/ GetPacketDetail
    \/ \E s \in Sessions : ProducerStepAnyFate(s)
    \/ \E s \in Sessions : Consumer(s)

SpecAnyFate == Init /\ [][NextAnyFate]_vars

\* The summary parser called once on a buffer of any of the shapes.
NextDissect == ParseSummaryCall

SpecDissect == InitDissect /\ [][NextDissect]_vars

\* The exporter's timestamp conversion run once on a cached timestamp.
NextStamp == ExportStampCall

SpecStamp == InitStamp /\ [][NextStamp]_vars

\* The dissector called once on a buffer of any of the shapes.
NextDissectPacket == DissectPacketCall

SpecDissectPacket == InitDissectPacket /\ [][NextDissectPacket]_vars

\* The application-layer classifier called once on arguments of every kind.
NextClassify == ClassifyCall

SpecClassify == InitClassify /\ [][NextClassify]_vars

\* ================================================================ claims
RECURSIVE BatchIds(_)
BatchIds(b) == IF b = <<>> THEN <<>> ELSE <<Head(b).id>> \o BatchIds(Tail(b))

\* ids emitted by session s, in emission order and batch order
RECURSIVE IdsOf(_, _)
IdsOf(log, s) ==
    IF log = <<>> THEN <<>>
    ELSE (IF Head(log).sess = s THEN BatchIds(Head(log).batch) ELSE <<>>)
         \o IdsOf(Tail(log), s)

EmittedIds(s) == IdsOf(emitted, s)
StrictlyIncreasing(q) == \A i \in 1..(Len(q) - 1) : q[i] < q[i + 1]

\* C1 as stated: in every session the emitted ids are strictly increasing
\* and the first id emitted is 1.
C1_FirstIdIsOne ==
    \A s \in Sessions :
        /\ StrictlyIncreasing(EmittedIds(s))
        /\ EmittedIds(s) # <<>> => EmittedIds(s)[1] = 1

\* C1 amended: in every session the emitted ids are strictly increasing and
\* the first id emitted is the id of the first frame read whose summary
\* parses (at least 1; frames dropped before it keep their ids).
C1_IdsIncreasing ==
    \A s \in Sessions :
        /\ StrictlyIncreasing(EmittedIds(s))
        /\ EmittedIds(s) # <<>> =>
              /\ EmittedIds(s)[1] >= 1
              /\ EmittedIds(s)[1] = first_ok[s]

\* a session has emitted ids 1 and 2 in two batches
C1_Witness ==
    \E s \in Sessions :
        /\ EmittedIds(s) = <<1, 2>>
        /\ \E i, j \in DOMAIN emitted :
              i < j /\ emitted[i].sess = s /\ emitted[j].sess = s

\* C2 as stated: no call of emit_all carries more than BATCH_SIZE summaries.
C2_BatchBound ==
    \A i \in DOMAIN emitted : Len(emitted[i].batch) <= BATCH_SIZE

AdmittedIds(s) == SeqToSet(admitted[s])

\* C4 as stated: the cache never holds more than MAX_CACHE_SIZE entries and,
\* once an insert of a session has trimmed it, its keys are the
\* MAX_CACHE_SIZE largest ids that session admitted.
C4_CacheBound ==
    /\ Cardinality(DOMAIN packet_cache) <= MAX_CACHE_SIZE
    /\ trimmed # 0 =>
          DOMAIN packet_cache = LargestK(AdmittedIds(trimmed), MAX_CACHE_SIZE)

\* C5: when the consumer leaves its loop (stop branch or disconnect) holding
\* a non-empty batch, exactly one event is appended and it carries the held
\* batch unchanged; holding an empty batch it emits nothing; and a consumer
\* that has left its loop emits nothing more.
LeavesLoop(s) ==
    \/ cpc[s] \in {"select", "select_ready"} /\ cpc'[s] = "joining"
    \/ cpc[s] = "drain" /\ cpc'[s] = "done"

C5_FlushOnExit ==
    [][\A s \in Sessions :
          /\ LeavesLoop(s) =>
                IF batch[s] # <<>>
                THEN /\ Len(emitted') = Len(emitted) + 1
                     /\ SubSeq(emitted', 1, Len(emitted)) = emitted
                     /\ emitted'[Len(emitted')].sess = s
                     /\ emitted'[Len(emitted')].batch = batch[s]
                     /\ StrictlyIncreasing(BatchIds(batch[s]))
                ELSE emitted' = emitted
          /\ cpc[s] \in {"joining", "done"} => IdsOf(emitted', s) = IdsOf(emitted, s)
      ]_vars

\* one session flushed a held batch on stop, another on disconnect
C5_Witness ==
    \E i, j \in DOMAIN emitted :
        /\ emitted[i].cause = "stop" /\ emitted[i].batch # <<>>
        /\ emitted[j].cause = "disconnect" /\ emitted[j].batch # <<>>


\* C6: a successful export writes its records in ascending id order, each
\* body being the cached bytes of its id, with captured_len = original_len
\* = the length of those bytes, whatever the order of the id list.
ExportDone ==
    /\ ncalls' = ncalls + 1
    /\ ret'.op = "export_pcap"
    /\ ret'.val = "Ok"

C6_ExportOrder ==
    [][ExportDone =>
          /\ Len(file'.records) = Len(file'.ids)
          /\ \A i \in 1..(Len(file'.ids) - 1) : file'.ids[i] <= file'.ids[i + 1]
          /\ \A i \in DOMAIN file'.records :
                /\ file'.ids[i] \in DOMAIN packet_cache
                /\ file'.records[i].data = packet_cache[file'.ids[i]].data
                /\ file'.records[i].captured_len = Len(packet_cache[file'.ids[i]].data)
                /\ file'.records[i].original_len = file'.records[i].captured_len
          /\ SeqToSet(file'.ids) = SeqToSet(req') \cap DOMAIN packet_cache
      ]_vars

\* an id list given in descending order was exported in ascending order
C6_Witness ==
    /\ ret.op = "export_pcap" /\ ret.val = "Ok"
    /\ file.exists
    /\ Len(req) = 2 /\ req[1] > req[2]
    /\ file.ids = <<req[2], req[1]>>
    /\ Len(file.records) = 2

\* C7: start_capture called while stop_tx holds a sender returns
\* "Capture already in progress" and changes nothing but the call's result.
StartCall ==
    /\ ncalls' = ncalls + 1
    /\ ret'.op = "start_capture"

C7_StartWhileRunning ==
    [][(StartCall /\ stop_tx # 0) =>
          /\ ret'.val = "Capture already in progress"
          /\ UNCHANGED <<stop_tx, packet_cache, nsess, cpc, ppc, open_err,
                         id_counter, queue, stop_ch, batch, elapsed, emitted,
                         first_ok, admitted, starved, trimmed, start_ret,
                         file, req>>
      ]_vars

\* a start was rejected while the running session had frames in the cache
C7_Witness ==
    /\ ret.op = "start_capture"
    /\ ret.val = "Capture already in progress"
    /\ stop_tx # 0
    /\ cpc[stop_tx] \in {"select", "drain"}
    /\ packet_cache # EmptyCache
    /\ nsess = 1

\* C8 as stated: when the device open of a session fails, the start_capture
\* that launched it returned that error and the session is not left Running.
C8_OpenFailureReported ==
    \A s \in Sessions :
        cpc[s] = "open_failed" =>
            /\ start_ret[s] = open_err[s]
            /\ stop_tx # s

\* C9 as stated: once the producer of a session has ended and its consumer
\* has returned, the session is Idle (its sender is no longer stored), so
\* that start_capture is accepted without a stop_capture.
C9_IdleAfterFatal ==
    \A s \in Sessions :
        (ppc[s] = "ended" /\ cpc[s] = "done") => stop_tx # s

\* C10 as stated: at most one session's producer thread is reading frames.
C10_OneProducer ==
    Cardinality({s \in Sessions : ppc[s] = "running"}) <= 1

\* C11 as stated: once the consumer of a session has left its loop on a stop
\* signal, the producer thread of that session eventually terminates.
C11_ProducerTerminates ==
    \A s \in Sessions : (cpc[s] = "joining") ~> (ppc[s] = "ended")

\* C12: get_packet_detail(id) returns "Packet not found in cache." exactly
\* when id is not a key of the cache, "Failed to dissect packet." when the id
\* is a key whose bytes dissect to absent, the detail of the cached bytes
\* otherwise, and changes neither the cache nor any session state.
DetailCall ==
    /\ ncalls' = ncalls + 1
    /\ ret'.op = "get_packet_detail"

C12_DetailErrors ==
    [][DetailCall =>
          LET id == detail'.id
              cached == id \in DOMAIN packet_cache
          IN  /\ detail'.called
              /\ (ret'.val = "Packet not found in cache.") <=> ~cached
              /\ (cached /\ ~dissect_packet(packet_cache[id].data, id).present)
                    => ret'.val = "Failed to dissect packet."
              /\ (cached /\ dissect_packet(packet_cache[id].data, id).present)
                    => /\ ret'.val = "Ok"
                       /\ detail'.result.present
                       /\ detail'.result.raw_bytes = packet_cache[id].data
                       /\ detail'.result.summary.id = id
              /\ UNCHANGED <<stop_tx, packet_cache, nsess, cpc, ppc, open_err,
                             id_counter, queue, stop_ch, batch, elapsed, emitted,
                             first_ok, admitted, starved, trimmed, start_ret,
                             file, req>>
      ]_vars

\* with a frame in the cache, a detail was asked of an id that is not in it
C12_Witness ==
    /\ ret.op = "get_packet_detail"
    /\ ret.val = "Packet not found in cache."
    /\ packet_cache # EmptyCache
    /\ detail.called /\ detail.id \notin DOMAIN packet_cache

\* C13: export_pcap rejects an empty id list with "No packets to export" and
\* a list none of whose ids is cached with bytes that parse with "No valid
\* packets found in cache"; neither rejection touches the destination file
\* or the cache.
ExportCall ==
    /\ ncalls' = ncalls + 1
    /\ ret'.op = "export_pcap"

\* entries of an id list that are cached with bytes that parse
ValidEntries(cache, packet_ids) ==
    {i \in DOMAIN packet_ids :
        /\ packet_ids[i] \in DOMAIN cache
        /\ parse_summary(cache[packet_ids[i]].data, packet_ids[i],
                         cache[packet_ids[i]].timestamp_ns).present}

C13_ExportRejects ==
    [][ExportCall =>
          /\ (ret'.val = "No packets to export") <=> (req' = <<>>)
          /\ (ret'.val = "No valid packets found in cache")
                <=> (req' # <<>> /\ ValidEntries(packet_cache, req') = {})
          /\ ret'.val \in {"No packets to export", "No valid packets found in cache"}
                => UNCHANGED <<file, packet_cache>>
      ]_vars

\* an export of ids that are not cached was rejected while the cache held a
\* frame and the file of an earlier export was in place
C13_Witness ==
    /\ ret.op = "export_pcap"
    /\ ret.val = "No valid packets found in cache"
    /\ req # <<>>
    /\ packet_cache # EmptyCache
    /\ file.exists /\ file.records # <<>>

\* C14: the count a successful export_pcap returns is the number of records
\* it wrote, which is the number of entries of the id list that are cached
\* with bytes that parse (a repeated id counts each time, a missing or
\* evicted id is skipped), whatever the consumer inserts and evicts around
\* the call.
C14_ExportCount ==
    [][ExportDone =>
          /\ ret'.count = Len(file'.records)
          /\ ret'.count = Cardinality(ValidEntries(packet_cache, req'))
          /\ ret'.count >= 1
      ]_vars

\* ids 1 and 2 were asked for after the insert of a later frame had evicted
\* id 1: one record, count 1
C14_Witness ==
    /\ ret.op = "export_pcap" /\ ret.val = "Ok"
    /\ req = <<1, 2>>
    /\ ret.count = 1
    /\ file.ids = <<2>>
    /\ trimmed # 0
    /\ 1 \in AdmittedIds(trimmed)

\* C15 as stated: when a session has ended (its run_capture task has
\* returned) no frame is left unconsumed in its queue.
C15_NothingLeftQueued ==
    \A s \in Sessions : cpc[s] = "done" => queue[s] = <<>>

\* C16: a summary follows the dispatch table.  IPv4: dotted-quad addresses
\* taken from bytes 26..33 of the frame and protocol TCP, UDP, ICMP by byte
\* 23, IPv4 otherwise.  IPv6: protocol TCP, UDP, ICMPv6 by byte 20, IPv6
\* otherwise.  ARP: the Ethernet MAC strings, protocol and info "ARP".  Any
\* other ethertype: the MAC strings, protocol and info "Unknown".  Always:
\* length is the buffer length, id and timestamp are the arguments.
C16_DispatchTable ==
    (probe.called /\ probe.summary.present) =>
        LET raw == probe.raw_data
            sm == probe.summary
            et == raw[13] * 256 + raw[14]
            macs == /\ sm.source_addr = MacToString(SubSeq(raw, 7, 12))
                    /\ sm.dest_addr = MacToString(SubSeq(raw, 1, 6))
        IN  /\ sm.length = Len(raw)
            /\ sm.id = probe.id
            /\ sm.timestamp = probe.timestamp_ns
            /\ et = ETHERTYPE_IPV4 =>
                  /\ sm.source_addr = Ipv4ToString(SubSeq(raw, 27, 30))
                  /\ sm.dest_addr = Ipv4ToString(SubSeq(raw, 31, 34))
                  /\ sm.source_addr = "192.168.1.1" /\ sm.dest_addr = "192.168.1.2"
                  /\ sm.protocol = (CASE raw[24] = 6 -> "TCP" [] raw[24] = 17 -> "UDP"
                                      [] raw[24] = 1 -> "ICMP" [] OTHER -> "IPv4")
            /\ et = ETHERTYPE_IPV6 =>
                  /\ sm.dest_addr = "::1"
                  /\ sm.source_addr \in {"2001:db8::ff00:42:8329", "::1",
                                          "::ffff:192.168.1.1", "1::4:5:0:0:8",
                                          "1:0:3:4:5:6:7:8"}
                  /\ sm.protocol = (CASE raw[21] = 6 -> "TCP" [] raw[21] = 17 -> "UDP"
                                      [] raw[21] = 58 -> "ICMPv6" [] OTHER -> "IPv6")
            /\ et = ETHERTYPE_ARP =>
                  macs /\ sm.protocol = "ARP" /\ sm.info = "ARP"
            /\ et \notin {ETHERTYPE_IPV4, ETHERTYPE_IPV6, ETHERTYPE_ARP} =>
                  macs /\ sm.protocol = "Unknown" /\ sm.info = "Unknown"
            /\ et \notin {ETHERTYPE_IPV4, ETHERTYPE_IPV6} =>
                  /\ sm.source_addr = "66:77:88:99:aa:bb"
                  /\ sm.dest_addr \in {"00:11:22:33:44:55", "ff:ff:ff:ff:ff:ff"}

\* the summary of an IPv4 frame whose next protocol is ICMP
C16_Witness ==
    /\ probe.called /\ probe.summary.present
    /\ probe.raw_data[13] * 256 + probe.raw_data[14] = ETHERTYPE_IPV4
    /\ probe.raw_data[24] = IPPROTO_ICMP
    /\ probe.summary.protocol = "ICMP"
    /\ probe.summary.source_addr = "192.168.1.1"
    /\ probe.id = 7 /\ probe.summary.id = 7

\* C17: the info of an IPv4 summary is "<src> → <dst>" followed by
\* " [<destination port>]" exactly when the next protocol is TCP or UDP and
\* the L4 header parses (the IPv4 payload holds 20 bytes for TCP, 8 for
\* UDP); the info of an IPv6 summary is "<src> → <dst>" with no suffix.
PlainInfo(sm) == sm.source_addr \o " → " \o sm.dest_addr
PortSuffix(port) == " [" \o ToDec(port) \o "]"

C17_PortSuffix ==
    (probe.called /\ probe.summary.present) =>
        LET raw == probe.raw_data
            sm == probe.summary
            et == raw[13] * 256 + raw[14]
            ip == SubSeq(raw, 15, Len(raw))
            l4 == Ipv4Payload(ip)
            parses == \/ raw[24] = IPPROTO_TCP /\ Len(l4) >= TCP_MIN
                      \/ raw[24] = IPPROTO_UDP /\ Len(l4) >= UDP_MIN
        IN  /\ et = ETHERTYPE_IPV4 =>
                  IF parses
                  THEN /\ sm.info = PlainInfo(sm) \o PortSuffix(l4[3] * 256 + l4[4])
                       /\ sm.info \in {PlainInfo(sm) \o " [80]", PlainInfo(sm) \o " [53]"}
                  ELSE sm.info = PlainInfo(sm)
            /\ et = ETHERTYPE_IPV6 => sm.info = PlainInfo(sm)

\* an IPv4 UDP summary: the destination port 53 follows the addresses
C17_Witness ==
    /\ probe.called /\ probe.summary.present
    /\ probe.summary.protocol = "UDP"
    /\ probe.summary.info = "192.168.1.1 → 192.168.1.2 [53]"

\* C18: parse_summary is absent for every buffer of fewer than 14 bytes, and
\* the consumer drops such a frame: the dequeue leaves the cache, the batch
\* and the admitted ids as they were, and the frame's id stays used (the
\* frames behind it carry greater ids).
ShortBuffers == {b \in TruncatedFrames \cup Frames : Len(b) < ETHERNET_MIN}

Dequeues(s) == queue[s] # <<>> /\ queue'[s] = Tail(queue[s])

C18_ShortFrameDropped ==
    [][\A s \in Sessions :
          (Dequeues(s) /\ Len(Head(queue[s]).data) < ETHERNET_MIN) =>
              /\ \A b \in ShortBuffers \cup {Head(queue[s]).data} :
                    ~parse_summary(b, Head(queue[s]).id, Head(queue[s]).timestamp_ns).present
              /\ UNCHANGED <<packet_cache, batch, admitted, emitted>>
              /\ Head(queue[s]).id <= id_counter[s]
              /\ \A i \in DOMAIN queue'[s] : queue'[s][i].id > Head(queue[s]).id
      ]_vars

\* the first frame of a session was too short and was dropped; the second
\* frame got id 2 and is the only one admitted
C18_Witness ==
    \E s \in Sessions :
        /\ id_counter[s] = 2 /\ queue[s] = <<>>
        /\ first_ok[s] = 2
        /\ admitted[s] = <<2>>
        /\ DOMAIN packet_cache = {2}
        /\ BatchIds(batch[s]) \o EmittedIds(s) = <<2>>

\* C19 as stated: whoever holds the cache lock does nothing inside it but
\* the cache operation itself (clear, insert with eviction, get): no
\* dissection and no file I/O.
CacheOperations == {"clear", "insert", "get"}

C19_LockAroundCacheOpOnly ==
    \A h \in Holders : crit[h] \subseteq CacheOperations

\* C20: each dequeue of the consumer either drops the frame (summary
\* absent: cache and batch unchanged, the id carried by no other queued
\* frame) or admits it: the cache becomes the old cache with (id, bytes,
\* ts_ns) put in and the lowest ids above MAX_CACHE_SIZE removed, and the
\* summary of that id is appended at the end of the session's batch.  Every
\* id held in a batch is an id the session has inserted.
C20_FrameEffect ==
    [][\A s \in Sessions :
          /\ Dequeues(s) =>
                LET f == Head(queue[s])
                    sm == parse_summary(f.data, f.id, f.timestamp_ns)
                    put == DOMAIN packet_cache \cup {f.id}
                    excess == Max(Cardinality(put) - MAX_CACHE_SIZE, 0)
                IN  /\ \A i \in DOMAIN queue'[s] : queue'[s][i].id > f.id
                    /\ IF ~sm.present
                       THEN UNCHANGED <<packet_cache, batch>>
                       ELSE /\ DOMAIN packet_cache' = put \ SmallestK(put, excess)
                            /\ \A k \in DOMAIN packet_cache' :
                                  packet_cache'[k] =
                                     IF k = f.id
                                     THEN [data |-> f.data, timestamp_ns |-> f.timestamp_ns]
                                     ELSE packet_cache[k]
                            /\ batch'[s] = Append(batch[s], sm)
                            /\ sm.id = f.id
                            /\ \A t \in Sessions \ {s} : batch'[t] = batch[t]
          /\ SeqToSet(BatchIds(batch'[s])) \subseteq AdmittedIds(s)'
      ]_vars

\* in one session the first frame was dropped and the inserts of ids 2, 3
\* and 4 evicted id 2
C20_Witness ==
    \E s \in Sessions :
        /\ first_ok[s] = 2
        /\ admitted[s] = <<2, 3, 4>>
        /\ trimmed = s
        /\ DOMAIN packet_cache = {3, 4}
        /\ batch[s] # <<>>

\* the tick of session s ends with the emit decision (try_recv() = Empty)
TickEnds(s) == cpc[s] = "drain" /\ cpc'[s] \in {"select", "select_ready"}

\* the tick of s ends emitting the held batch, clearing it and restarting
\* the count of ticks since the last emit
EmitsOnTick(s) ==
    /\ emitted' = Append(emitted, Event(s, "tick", batch[s]))
    /\ batch'[s] = <<>>
    /\ elapsed'[s] = 0

\* the tick of s ends with the batch and the last-emit instant untouched
LeavesBatch(s) ==
    /\ emitted' = emitted
    /\ batch'[s] = batch[s]
    /\ elapsed'[s] = elapsed[s]

\* C21 as stated: at the end of a tick, whenever the batch holds BATCH_SIZE
\* summaries or BATCH_TIMEOUT has passed since the last emit, the batch is
\* emitted and cleared and the last-emit instant reset; otherwise the batch
\* and the last-emit instant are unchanged.
C21_EmitDecision ==
    [][\A s \in Sessions :
          TickEnds(s) =>
              IF Len(batch[s]) >= BATCH_SIZE \/ elapsed[s] >= BATCH_TIMEOUT_TICKS
              THEN EmitsOnTick(s) ELSE LeavesBatch(s)
      ]_vars

\* C21 amended: the same for a non-empty batch; with an empty batch nothing
\* is emitted and the last-emit instant is left as it was, timeout passed or
\* not.
C21_EmitDecisionNonEmpty ==
    [][\A s \in Sessions :
          TickEnds(s) =>
              IF /\ Len(batch[s]) >= BATCH_SIZE \/ elapsed[s] >= BATCH_TIMEOUT_TICKS
                 /\ batch[s] # <<>>
              THEN EmitsOnTick(s) ELSE LeavesBatch(s)
      ]_vars

\* one tick emitted on size, another on timeout with a shorter batch
C21_Witness ==
    \E i, j \in DOMAIN emitted :
        /\ emitted[i].cause = "tick" /\ Len(emitted[i].batch) >= BATCH_SIZE
        /\ emitted[j].cause = "tick" /\ Len(emitted[j].batch) < BATCH_SIZE
        /\ emitted[j].batch # <<>>

\* session s is inside the loop of run_capture
InLoop(s) == cpc[s] \in {"select", "select_ready", "drain"}

\* C22: once the stop message of a session is in its stop channel, the
\* consumer of that session, if it is in its loop, eventually leaves it
\* (through the stop branch, or on a disconnect), whatever the producer does.
C22_StopObserved ==
    \A s \in Sessions : (stop_ch[s] >= 1 /\ InLoop(s)) ~> ~InLoop(s)

\* C23: on the stop channel of each session try_send is called at most once,
\* so at most one message is ever in it and no stop_capture call fails on a
\* full channel.
C23_OneStopMessage ==
    /\ \A s \in Sessions : stop_sends[s] <= 1 /\ stop_ch[s] <= 1
    /\ ~(ret.op = "stop_capture"
         /\ ret.val = "Failed to send stop signal: no available capacity")

\* stop_capture was called again while the message of the first call was
\* still in the channel, and returned Ok without sending
C23_Witness ==
    \E s \in Sessions :
        /\ stop_sends[s] = 1 /\ stop_ch[s] = 1
        /\ InLoop(s)
        /\ stop_tx = 0
        /\ ncalls = 3
        /\ ret.op = "stop_capture" /\ ret.val = "Ok"

\* C24: once a later session has been started (its start cleared the cache),
\* the consumer of an earlier session takes no frame into the cache: a
\* dequeue by an earlier session leaves the cache as it is.
C24_NoStaleInsert ==
    [][\A s \in Sessions :
          (s < nsess /\ Dequeues(s)) => packet_cache' = packet_cache
      ]_vars

\* C25: the summary inside a detail result agrees with the summary of the
\* cached frame in id, addresses, protocol, length and info, and its
\* timestamp is the system time of the detail call.
C25_DetailSummary ==
    [][(DetailCall /\ detail'.result.present) =>
          LET cached == packet_cache[detail'.id]
              sm == parse_summary(cached.data, detail'.id, cached.timestamp_ns)
              d == detail'.result.summary
          IN  /\ d.id = sm.id
              /\ d.source_addr = sm.source_addr
              /\ d.dest_addr = sm.dest_addr
              /\ d.protocol = sm.protocol
              /\ d.length = sm.length
              /\ d.info = sm.info
              /\ d.timestamp = detail'.now
      ]_vars

\* the payload starts with one of the five HTTP prefixes
HttpPrefixed(payload) ==
    \E pat \in {GET, POST, PUT, DELETE, HTTP_SLASH} : StartsWith(payload, pat)

\* value of the field called key in a layer ("" when it has none)
FieldOf(layer, key) ==
    IF \E i \in DOMAIN layer.fields : layer.fields[i][1] = key
    THEN layer.fields[CHOOSE i \in DOMAIN layer.fields : layer.fields[i][1] = key][2]
    ELSE ""

\* C26: for a non-empty payload the classifier pushes exactly one layer:
\* "Domain Name System" when either port is 53 (Port "53 (Response)" when
\* src_port is 53, else "53 (Query)"), TCP on a web port included; otherwise,
\* for TCP with a port 80 or 443 and a payload that starts with GET, POST,
\* PUT, DELETE or HTTP/, "Hypertext Transfer Protocol Secure" when a port is
\* 443 and "Hypertext Transfer Protocol" when not; otherwise "Application
\* Data".  For an empty payload it pushes nothing.
C26_Classifier ==
    (probe.called /\ "layers" \in DOMAIN probe) =>
        LET src == probe.src_port
            dst == probe.dst_port
            ports == {src, dst}
        IN  IF probe.payload = <<>> THEN probe.layers = <<>>
            ELSE /\ Len(probe.layers) = 1
                 /\ IF 53 \in ports
                    THEN /\ probe.layers[1].name = "Domain Name System"
                         /\ FieldOf(probe.layers[1], "Port") =
                               (IF src = 53 THEN "53 (Response)" ELSE "53 (Query)")
                    ELSE IF /\ probe.is_tcp
                            /\ ports \cap {80, 443} # {}
                            /\ HttpPrefixed(probe.payload)
                    THEN probe.layers[1].name =
                            (IF 443 \in ports
                             THEN "Hypertext Transfer Protocol Secure"
                             ELSE "Hypertext Transfer Protocol")
                    ELSE probe.layers[1].name = "Application Data"

\* the keys of the fields of a layer, in order
FieldKeys(layer) == [i \in DOMAIN layer.fields |-> layer.fields[i][1]]

\* names of the layers by the place they take in a detail (the ARP layer
\* stands in the network place, the ICMP layer in the transport place)
NetworkLayerNames ==
    {"Internet Protocol Version 4", "Internet Protocol Version 6",
     "Address Resolution Protocol"}
TransportLayerNames ==
    {"Transmission Control Protocol", "User Datagram Protocol",
     "Internet Control Message Protocol"}
ApplicationLayerNames ==
    {"Domain Name System", "Hypertext Transfer Protocol",
     "Hypertext Transfer Protocol Secure", "Application Data"}

\* C27: a detail has 1 to 4 layers; the first is "Ethernet" with the fields
\* Destination, Source, Type in that order; a second layer is a network
\* layer; a third is a transport layer and follows IPv4 or IPv6; a fourth is
\* an application layer, follows TCP or UDP and reports a payload that is not
\* empty.
C27_LayerOrder ==
    (probe.called /\ "detail" \in DOMAIN probe /\ probe.detail.present) =>
        LET L == probe.detail.layers
        IN  /\ Len(L) \in 1..4
            /\ L[1].name = "Ethernet"
            /\ FieldKeys(L[1]) = <<"Destination", "Source", "Type">>
            /\ Len(L) >= 2 => L[2].name \in NetworkLayerNames
            /\ Len(L) >= 3 =>
                  /\ L[3].name \in TransportLayerNames
                  /\ L[2].name \in {"Internet Protocol Version 4",
                                    "Internet Protocol Version 6"}
            /\ Len(L) >= 4 =>
                  /\ L[4].name \in ApplicationLayerNames
                  /\ L[3].name \in {"Transmission Control Protocol",
                                    "User Datagram Protocol"}
                  /\ FieldOf(L[4], "Payload Length") # "0 bytes"
                  /\ Len(probe.raw_data) > ETHERNET_MIN + IPV4_MIN + UDP_MIN

\* the detail of a DNS answer over IPv6/UDP: four layers
C27_Witness ==
    /\ probe.called /\ "detail" \in DOMAIN probe /\ probe.detail.present
    /\ Len(probe.detail.layers) = 4
    /\ probe.detail.layers[2].name = "Internet Protocol Version 6"
    /\ probe.detail.layers[3].name = "User Datagram Protocol"
    /\ probe.detail.layers[4].name = "Domain Name System"
    /\ FieldOf(probe.detail.layers[4], "Port") = "53 (Response)"

\* the unsigned 32-bit value x is at most n (n below 2^31)
U32AtMost(x, n) == x[1] <= n \div HALF /\ x[1] * HALF + x[2] <= n

\* C28: for every cached timestamp_ns of the i64 range the record header
\* holds ts_sec = ts_ns / 10^9 and ts_usec = min((ts_ns mod 10^9) / 10^3,
\* 999999) as unsigned 32-bit values, and ts_usec is at most 999999.
C28_ExportStamp ==
    (probe.called /\ "timestamp_usec" \in DOMAIN probe) =>
        LET q == probe.timestamp_ns[1]
            r == probe.timestamp_ns[2]
        IN  /\ probe.timestamp_sec = q
            /\ probe.timestamp_usec = WideOf(Min(TruncDiv(r, NS_PER_US), USEC_MAX))
            /\ U32AtMost(probe.timestamp_usec, USEC_MAX)

\* the nanoseconds of a header (ts_sec, ts_usec) with 0 <= ts_usec < 10^6:
\* ts_sec * 10^9 + ts_usec * 10^3, as quotient and remainder by 10^9
SourceNs(h) == <<h[1], h[2] * NS_PER_US>>

\* every queued and every cached frame carries the nanoseconds of the
\* header it was read with
Carried ==
    /\ \A s \in Sessions : \A i \in DOMAIN queue[s] :
          queue[s][i].timestamp_ns = SourceNs(headers[s][queue[s][i].id])
    /\ \A id \in DOMAIN packet_cache :
          packet_cache[id].timestamp_ns = SourceNs(headers[nsess][id])

\* C29: a frame read with header (ts_sec, ts_usec), 0 <= ts_sec < 2^32 and
\* 0 <= ts_usec < 10^6, is queued and cached with ts_sec * 10^9 + ts_usec *
\* 10^3 nanoseconds, and an export writes the same (ts_sec, ts_usec) into
\* its record header.
C29_RoundTrip ==
    [][/\ Carried'
       /\ ExportDone =>
             \A i \in DOMAIN file'.records :
                LET h == headers[nsess][file'.ids[i]]
                IN  /\ file'.records[i].ts_sec = h[1]
                    /\ file'.records[i].ts_usec = WideOf(h[2])]_vars

\* an export has written a frame stamped in the last second that fits 32
\* bits, at the last microsecond of it, and a frame stamped at the epoch
C29_Witness ==
    /\ file.exists
    /\ \E i \in DOMAIN file.records :
          /\ file.records[i].ts_sec = <<HALF - 1, HALF - 1>>
          /\ file.records[i].ts_usec = WideOf(USEC_MAX)
    /\ \E i \in DOMAIN file.records :
          /\ file.records[i].ts_sec = WideOf(0)
          /\ file.records[i].ts_usec = WideOf(0)

\* on every buffer of the shapes, under every id and timestamp, the detail
\* is present exactly when the summary is
SamePresence ==
    \A raw_data \in DetailFrames \cup FramesAnyFate, id \in ProbeIds,
       timestamp_ns \in ProbeTimestamps :
        dissect_packet(raw_data, id).present
            <=> parse_summary(raw_data, id, timestamp_ns).present

\* the same on every frame read and not yet received, with its own id and
\* timestamp
SamePresenceQueued ==
    \A s \in Sessions : \A i \in DOMAIN queue[s] :
        dissect_packet(queue[s][i].data, queue[s][i].id).present
            <=> parse_summary(queue[s][i].data, queue[s][i].id,
                              queue[s][i].timestamp_ns).present

\* every cached frame dissects, and no detail call has failed to dissect
CachedDissect ==
    /\ \A id \in DOMAIN packet_cache :
          dissect_packet(packet_cache[id].data, id).present
    /\ ret.op = "get_packet_detail" => ret.val # "Failed to dissect packet."

\* C30: dissect_packet(raw, id) is present exactly when parse_summary(raw,
\* id, ts) is present, and get_packet_detail on a cached id never fails
\* with "Failed to dissect packet.".
C30_DissectPresent ==
    /\ ncalls = 0 => SamePresence    \* a fact of the two functions alone
    /\ SamePresenceQueued
    /\ CachedDissect

\* a detail call has succeeded on a cached IPv4 frame while another frame
\* that was read has not been admitted
C30_Witness ==
    /\ ret.op = "get_packet_detail"
    /\ ret.val = "Ok"
    /\ detail.result.present
    /\ detail.result.summary.protocol = "TCP"
    /\ \E s \in Sessions :
          /\ FramesRead(id_counter) >= 2
          /\ Cardinality(DOMAIN packet_cache) = 1
          /\ queue[s] = <<>>

\* C31: every "new_packet_batch" event, emitted on a tick, on stop or on
\* producer disconnect, carries at least one summary, also when the batch
\* timeout elapses with nothing pending.
C31_NoEmptyBatch ==
    \A j \in DOMAIN emitted :
        /\ emitted[j].cause \in {"tick", "stop", "disconnect"}
        /\ Len(emitted[j].batch) >= 1

\* after an emission, a tick has ended with the timeout elapsed and nothing
\* pending, and has emitted nothing
C31_Witness ==
    /\ emitted # <<>>
    /\ \E s \in Sessions :
          /\ cpc[s] \in {"select", "select_ready"}
          /\ elapsed[s] >= BATCH_TIMEOUT_TICKS
          /\ batch[s] = <<>>
          /\ starved[s]

\* a step that is a call of stop_capture
StopCall ==
    /\ ncalls' = ncalls + 1
    /\ ret'.op = "stop_capture"

\* C32: stop_capture leaves no sender stored in every case: called with
\* none stored it returns Ok and changes nothing but the call's result;
\* called with one stored it removes it, also when the send fails because
\* the consumer has exited; and a start_capture called with none stored is
\* accepted.
C32_StopLeavesIdle ==
    [][/\ StopCall =>
             /\ stop_tx' = 0
             /\ stop_tx = 0 =>
                   /\ ret'.val = "Ok"
                   /\ UNCHANGED <<stop_tx, packet_cache, nsess, trimmed, emitted,
                                  start_ret, file, req, crit, stop_sends,
                                  sessVars, callVars>>
             /\ stop_tx # 0 =>
                   ret'.val \in {"Ok", "Failed to send stop signal: channel closed",
                                 "Failed to send stop signal: no available capacity"}
       /\ (StartCall /\ stop_tx = 0) =>
             /\ ret'.val = "Ok"
             /\ stop_tx' = nsess'
             /\ nsess' = nsess + 1
      ]_vars

\* the consumer of session 1 had returned on a disconnect when stop_capture
\* was called: the send failed (nothing is in the channel), and the
\* start_capture after it was accepted
C32_Witness ==
    /\ ret.op = "start_capture" /\ ret.val = "Ok"
    /\ nsess = 2 /\ stop_tx = 2
    /\ cpc[1] = "done"
    /\ stop_sends[1] = 1 /\ stop_ch[1] = 0
    /\ \E j \in DOMAIN emitted :
          emitted[j].sess = 1 /\ emitted[j].cause = "disconnect"

====
